---- MODULE Spec2Model ----
(***************************************************************************)
(* OPD claim adjudication pipeline (app/workflows/claim_adjudication.py    *)
(* and the agents and tools it calls), modelled as a state machine.        *)
(*                                                                         *)
(* Units.  Money is counted in thousandths of a rupee and scores (risk,    *)
(* confidence) in thousandths, so that Python's round(x, 2) is a real      *)
(* operation (Round2) and not the identity.  Dates are day ordinals with   *)
(* day 0 = 2024-01-01 (a Monday).                                          *)
(*                                                                         *)
(* Strings.  The source only ever tests texts with `kw in text.lower()`;   *)
(* Substrings records, for every text of the catalogue, the keywords of    *)
(* the source that occur in it.                                            *)
(*                                                                         *)
(* Policy.  docs/policy_terms.json is not part of the sources; the model   *)
(* uses the fall-back value each accessor of policy_tools.py hard-codes.   *)
(***************************************************************************)
EXTENDS Integers, Sequences, FiniteSets, Bags, TLC

VARIABLES
    pc,            \* position of process(): see Stages
    claim,         \* the claim submission (dict handed to process_claim)
    now,           \* wall clock read by datetime.now(): [day, uuid]
    extraction,    \* result of extract_document_data
    eligibility,   \* result of check_eligibility_with_agent
    coverage,      \* result of validate_coverage_with_agent
    limit,         \* result of calculate_limits_with_agent
    fraud,         \* result of check_fraud_indicators
    result,        \* the AdjudicationResult returned
    ran,           \* history: the stages executed so far, in order
    first,         \* the AdjudicationResult of the previous run on this claim
    db,            \* the row of table "claims" holding this claim, if any
    policy_cache,  \* the module global _policy_cache of policy_tools.py
    threads,       \* the position of each thread inside get_policy_terms
    table          \* the rows of table "claims" of the member, this year: a bag

vars == <<pc, claim, now, extraction, eligibility, coverage, limit, fraud, result, ran, first,
          db, policy_cache, threads, table>>

\* what process_claim itself never touches
shared == <<db, policy_cache, threads, table>>

----------------------------------------------------------------------------
(* Units and rounding *)

Rs(x) == x * 1000

Min2(a, b) == IF a <= b THEN a ELSE b
Max2(a, b) == IF a >= b THEN a ELSE b

\* the integer nearest to n / d (d > 0), ties to the even one: Python's round()
RoundDiv(n, d) ==
    LET q  == n \div d
        r2 == 2 * (n % d)
    IN  IF r2 < d THEN q
        ELSE IF r2 > d THEN q + 1
        ELSE IF q % 2 = 0 THEN q ELSE q + 1

\* round(x, 2) on a value in thousandths: the nearest multiple of 10
Round2(x) == 10 * RoundDiv(x, 10)

----------------------------------------------------------------------------
(* Texts and the keywords they contain *)

Substrings ==
       "" :> {} @@
       "Viral fever" :> {} @@
       "Tooth decay requiring root canal" :> {"root canal"} @@
       "Gastroenteritis" :> {} @@
       "Lower back pain" :> {} @@
       "Obesity - Morbid Obesity" :> {"obesity"} @@
       "Chronic joint pain - Ayurvedic Panchakarma" :> {"ayur", "ayurvedic", "panchakarma"} @@
       "Type 2 Diabetes" :> {"diabetes", "type 2 diabetes"} @@
       "Acute appendicitis" :> {"acute"} @@
       "Knee replacement surgery" :> {"knee replacement"} @@
       "Root Canal Treatment" :> {"root canal"} @@
       "Teeth Whitening" :> {"teeth whitening", "whitening"} @@
       "Diet Plan Package" :> {"diet", "diet plan"} @@
       "Panchakarma therapy" :> {"panchakarma"} @@
       "Cosmetic Surgery" :> {"cosmetic"} @@
       "Consultation" :> {} @@
       "Paracetamol 650mg" :> {} @@
       "Vitamin D3" :> {"vitamin"} @@
       "Metformin 500mg" :> {} @@
       "CBC" :> {} @@
       "Dengue" :> {} @@
       "MRI Lumbar Spine" :> {"mri"} @@
       "Cosmetic procedures/treatments" :> {"cosmetic"} @@
       "Weight Loss procedures/treatments" :> {"weight", "weight loss"} @@
       "Infertility procedures/treatments" :> {"fertility", "infertility"} @@
       "Experimental procedures/treatments" :> {"experimental"} @@
       "Self Inflicted procedures/treatments" :> {"self inflicted"} @@
       "Adventure Sports procedures/treatments" :> {"adventure sports"} @@
       "Alcohol Drugs procedures/treatments" :> {} @@
       "Vitamins and supplements (unless prescribed for deficiency)" :> {"deficiency", "supplement", "vitamin"} @@
       "requires pre-authorization" :> {} @@
       "Apollo Hospitals" :> {} @@
       "City Clinic" :> {} @@
       "Ayurveda weight loss therapy" :> {"ayur", "ayurveda", "weight", "weight loss"} @@
       "Homeopathy for infertility" :> {"fertility", "homeo", "homeopathy", "infertility"} @@
       "Unani beauty treatment" :> {"beauty", "unani"} @@
       "Yoga therapy for obesity" :> {"obesity", "yoga therapy"} @@
       "Hypertension" :> {"hypertension"} @@
       "Diabetes and knee replacement" :> {"diabetes", "knee replacement"} @@
       "Chronic joint pain" :> {} @@
       "Toothache - Ayurvedic dental care" :> {"ayur", "ayurvedic", "dental"}

\* kw in text.lower()
Contains(kw, text) == kw \in Substrings[text]

\* any(kw in text.lower() for kw in kws)
ContainsAny(kws, text) == \E kw \in kws : Contains(kw, text)

\* kw in str(items).lower(), items a list of texts
ListContains(kw, items) == \E i \in 1..Len(items) : Contains(kw, items[i])

SeqToSet(s) == {s[i] : i \in 1..Len(s)}

----------------------------------------------------------------------------
(* Policy configuration: app/tools/policy_tools.py *)

get_annual_limit == Rs(50000)
get_per_claim_limit == Rs(5000)
get_minimum_claim_amount == Rs(500)
get_exclusions == << >>
\* policy.get("network_hospitals", []): the policy document names one hospital
get_network_hospitals == <<"Apollo Hospitals">>

Categories == {"consultation", "diagnostic", "pharmacy", "dental", "vision", "alternative_medicine"}

\* get_sub_limits(category): the "limit" entry, and whether the entry of the
\* category carries copay_percentage / network_discount keys
SubLimitTable ==
    [consultation         |-> Rs(2000),
     diagnostic           |-> Rs(10000),
     pharmacy             |-> Rs(15000),
     dental               |-> Rs(10000),
     vision               |-> Rs(5000),
     alternative_medicine |-> Rs(8000)]

\* get_sub_limits(category).get("limit", default): for a category outside the
\* table get_sub_limits returns the whole table, which has no "limit" key
get_sub_limit(category, default) ==
    IF category \in Categories THEN SubLimitTable[category] ELSE default

\* get_waiting_periods().get(name, default): the policy names no ailment
WaitingInitial == 30
WaitingDiabetes == 90
WaitingHypertension == 90
WaitingJointReplacement == 730

----------------------------------------------------------------------------
(* Dates: [kind, day].  kind "ok" is a well-formed YYYY-MM-DD string, "bad" a *)
(* string strptime rejects (ValueError), "none" a missing value (None).       *)

OkDate(d) == [kind |-> "ok", day |-> d]
BadDate == [kind |-> "bad", day |-> 0]
NoDate == [kind |-> "none", day |-> 0]

\* datetime.weekday(): Monday = 0; day 0 is Monday 2024-01-01
Weekday(d) == d % 7

\* the calendar year of a day ordinal, 2022..2027
YearOf(d) ==
    IF d < -365 THEN 2022
    ELSE IF d < 0 THEN 2023
    ELSE IF d < 366 THEN 2024
    ELSE IF d < 731 THEN 2025
    ELSE IF d < 1096 THEN 2026
    ELSE 2027

----------------------------------------------------------------------------
(* Eligibility: app/agents/eligibility_checker.py *)

\* condition_waiting_map, in insertion order
condition_waiting_map ==
    << [keyword |-> "diabetes",          days |-> WaitingDiabetes],
       [keyword |-> "type 2 diabetes",   days |-> WaitingDiabetes],
       [keyword |-> "type 1 diabetes",   days |-> WaitingDiabetes],
       [keyword |-> "hypertension",      days |-> WaitingHypertension],
       [keyword |-> "blood pressure",    days |-> WaitingHypertension],
       [keyword |-> "high bp",           days |-> WaitingHypertension],
       [keyword |-> "joint replacement", days |-> WaitingJointReplacement],
       [keyword |-> "knee replacement",  days |-> WaitingJointReplacement],
       [keyword |-> "hip replacement",   days |-> WaitingJointReplacement],
       [keyword |-> "arthroplasty",      days |-> WaitingJointReplacement] >>

EligibilityFault ==
    [fault |-> TRUE, is_eligible |-> FALSE, rejection_reasons |-> << >>,
     waiting_period_end_date |-> NoDate, confidence_score |-> 0]

WaitingPeriodRejection(end_day, conf) ==
    [fault |-> FALSE, is_eligible |-> FALSE, rejection_reasons |-> <<"WAITING_PERIOD">>,
     waiting_period_end_date |-> OkDate(end_day), confidence_score |-> conf]

\* the loop over condition_waiting_map: index of the first keyword found in
\* the diagnosis whose waiting period has not elapsed, 0 when there is none
FirstUnmetCondition(diagnosis, days_since_join) ==
    LET hits == {i \in 1..Len(condition_waiting_map) :
                    /\ Contains(condition_waiting_map[i].keyword, diagnosis)
                    /\ days_since_join < condition_waiting_map[i].days}
    IN  IF hits = {} THEN 0 ELSE CHOOSE i \in hits : \A j \in hits : i <= j

\* check_eligibility without the loop over condition_waiting_map
check_eligibility_InitialOnly(treatment_date, diagnosis, member_join_date) ==
    IF treatment_date.kind = "none" THEN EligibilityFault
    ELSE IF treatment_date.kind = "bad" \/ member_join_date.kind = "bad" THEN
        [fault |-> FALSE, is_eligible |-> FALSE, rejection_reasons |-> <<"INVALID_DATE">>,
         waiting_period_end_date |-> NoDate, confidence_score |-> 1000]
    ELSE
        LET join_day == IF member_join_date.kind = "none" THEN 0 ELSE member_join_date.day
            days_since_join == treatment_date.day - join_day
        IN  IF days_since_join < WaitingInitial
            THEN WaitingPeriodRejection(join_day + WaitingInitial, 980)
            ELSE [fault |-> FALSE, is_eligible |-> TRUE, rejection_reasons |-> << >>,
                  waiting_period_end_date |-> NoDate, confidence_score |-> 950]

check_eligibility(treatment_date, diagnosis, member_join_date) ==
    IF treatment_date.kind = "none" THEN EligibilityFault      \* strptime(None): TypeError, not caught
    ELSE IF treatment_date.kind = "bad" \/ member_join_date.kind = "bad" THEN
        [fault |-> FALSE, is_eligible |-> FALSE, rejection_reasons |-> <<"INVALID_DATE">>,
         waiting_period_end_date |-> NoDate, confidence_score |-> 1000]
    ELSE
        LET join_day == IF member_join_date.kind = "none" THEN 0 ELSE member_join_date.day
            days_since_join == treatment_date.day - join_day
            k == FirstUnmetCondition(diagnosis, days_since_join)
        IN  IF days_since_join < WaitingInitial
            THEN WaitingPeriodRejection(join_day + WaitingInitial, 980)
            ELSE IF k # 0
            THEN WaitingPeriodRejection(join_day + condition_waiting_map[k].days, 960)
            ELSE [fault |-> FALSE, is_eligible |-> TRUE, rejection_reasons |-> << >>,
                  waiting_period_end_date |-> NoDate, confidence_score |-> 950]

\* default_join = datetime.now() - timedelta(days=365) when the claim has no
\* (or an empty) member_join_date
check_eligibility_with_agent(claim_data, extracted_data, clock) ==
    LET member_join_date ==
            IF claim_data.member_join_date.kind = "none"
            THEN OkDate(clock.day - 365)
            ELSE claim_data.member_join_date
    IN  check_eligibility(claim_data.treatment_date, extracted_data.diagnosis, member_join_date)

----------------------------------------------------------------------------
(* Exclusions and pre-authorization: app/tools/policy_tools.py *)

AltMedicineKeywords == {"ayurveda", "ayurvedic", "homeopathy", "unani", "panchakarma", "yoga therapy"}
DeficiencyKeywords == {"deficiency", "anemia", "scurvy", "rickets", "malnutrition"}
WellnessKeywords == {"wellness", "prevention", "supplement", "general health", "boost"}

\* exclusion_keywords flattened in iteration order; reason is the text
\* f"{exclusion_type.replace('_', ' ').title()} procedures/treatments"
exclusion_keywords ==
    << [keyword |-> "cosmetic",         reason |-> "Cosmetic procedures/treatments"],
       [keyword |-> "whitening",        reason |-> "Cosmetic procedures/treatments"],
       [keyword |-> "aesthetic",        reason |-> "Cosmetic procedures/treatments"],
       [keyword |-> "beauty",           reason |-> "Cosmetic procedures/treatments"],
       [keyword |-> "bleaching",        reason |-> "Cosmetic procedures/treatments"],
       [keyword |-> "weight loss",      reason |-> "Weight Loss procedures/treatments"],
       [keyword |-> "obesity",          reason |-> "Weight Loss procedures/treatments"],
       [keyword |-> "bariatric",        reason |-> "Weight Loss procedures/treatments"],
       [keyword |-> "diet plan",        reason |-> "Weight Loss procedures/treatments"],
       [keyword |-> "slimming",         reason |-> "Weight Loss procedures/treatments"],
       [keyword |-> "infertility",      reason |-> "Infertility procedures/treatments"],
       [keyword |-> "ivf",              reason |-> "Infertility procedures/treatments"],
       [keyword |-> "fertility",        reason |-> "Infertility procedures/treatments"],
       [keyword |-> "experimental",     reason |-> "Experimental procedures/treatments"],
       [keyword |-> "unproven",         reason |-> "Experimental procedures/treatments"],
       [keyword |-> "clinical trial",   reason |-> "Experimental procedures/treatments"],
       [keyword |-> "self-inflicted",   reason |-> "Self Inflicted procedures/treatments"],
       [keyword |-> "self inflicted",   reason |-> "Self Inflicted procedures/treatments"],
       [keyword |-> "suicide",          reason |-> "Self Inflicted procedures/treatments"],
       [keyword |-> "adventure sports", reason |-> "Adventure Sports procedures/treatments"],
       [keyword |-> "bungee",           reason |-> "Adventure Sports procedures/treatments"],
       [keyword |-> "skydiving",        reason |-> "Adventure Sports procedures/treatments"],
       [keyword |-> "paragliding",      reason |-> "Adventure Sports procedures/treatments"],
       [keyword |-> "alcoholism",       reason |-> "Alcohol Drugs procedures/treatments"],
       [keyword |-> "drug abuse",       reason |-> "Alcohol Drugs procedures/treatments"],
       [keyword |-> "addiction",        reason |-> "Alcohol Drugs procedures/treatments"],
       [keyword |-> "substance",        reason |-> "Alcohol Drugs procedures/treatments"] >>

NotExcluded == [is_excluded |-> FALSE, reason |-> ""]

\* the policy's exclusion naming the keyword, else the generic reason
ExclusionReason(k) ==
    LET named == {j \in 1..Len(get_exclusions) :
                      Contains(exclusion_keywords[k].keyword, get_exclusions[j])}
    IN  IF named = {} THEN exclusion_keywords[k].reason
        ELSE get_exclusions[CHOOSE j \in named : \A j2 \in named : j <= j2]

\* check_exclusions with the alternative-medicine test looking at the treatment only
check_exclusions_TreatmentOnly(treatment, diagnosis) ==
    IF \E kw \in AltMedicineKeywords : Contains(kw, treatment)
    THEN NotExcluded
    ELSE LET hits == {k \in 1..Len(exclusion_keywords) :
                         \/ Contains(exclusion_keywords[k].keyword, treatment)
                         \/ Contains(exclusion_keywords[k].keyword, diagnosis)}
         IN  IF hits = {} THEN NotExcluded
             ELSE [is_excluded |-> TRUE,
                   reason |-> ExclusionReason(CHOOSE k \in hits : \A k2 \in hits : k <= k2)]

check_exclusions(treatment, diagnosis) ==
    IF \E kw \in AltMedicineKeywords : Contains(kw, treatment) \/ Contains(kw, diagnosis)
    THEN NotExcluded
    ELSE IF Contains("vitamin", treatment) \/ Contains("supplement", treatment)
    THEN IF ContainsAny(DeficiencyKeywords, diagnosis) THEN NotExcluded
         ELSE IF ContainsAny(WellnessKeywords, diagnosis)
         THEN [is_excluded |-> TRUE,
               reason |-> "Vitamins and supplements (unless prescribed for deficiency)"]
         ELSE NotExcluded
    ELSE
        LET hits == {k \in 1..Len(exclusion_keywords) :
                        \/ Contains(exclusion_keywords[k].keyword, treatment)
                        \/ Contains(exclusion_keywords[k].keyword, diagnosis)}
        IN  IF hits = {} THEN NotExcluded
            ELSE [is_excluded |-> TRUE,
                  reason |-> ExclusionReason(CHOOSE k \in hits : \A k2 \in hits : k <= k2)]

PreAuthThreshold == 10000

check_pre_authorization_required(test_name, amount) ==
    /\ ContainsAny({"mri", "ct scan", "pet scan"}, test_name)
    /\ amount > Rs(PreAuthThreshold)

----------------------------------------------------------------------------
(* Coverage: app/agents/coverage_validator.py *)

\* if code not in rejection_reasons: rejection_reasons.append(code)
AddOnce(codes, code) == IF code \in SeqToSet(codes) THEN codes ELSE Append(codes, code)

\* the rejection code of an excluded item
ExclusionCode(item, reason) ==
    IF Contains("cosmetic", reason) \/ Contains("whitening", item) THEN "COSMETIC_PROCEDURE"
    ELSE IF Contains("weight", reason) \/ Contains("obesity", item) \/ Contains("diet plan", item)
    THEN "SERVICE_NOT_COVERED"
    ELSE "EXCLUDED_CONDITION"

\* one pass of the loop over all_items; acc = [covered, excluded, reasons]
CheckItem(item, diagnosis, acc) ==
    IF item = "" THEN acc
    ELSE IF ContainsAny({"ayurveda", "ayurvedic", "homeopathy", "unani", "panchakarma"}, item)
    THEN [acc EXCEPT !.covered = Append(@, item)]
    ELSE LET x == check_exclusions(item, diagnosis)
         IN  IF x.is_excluded
             THEN [acc EXCEPT !.excluded = Append(@, [item |-> item, reason |-> x.reason]),
                              !.reasons = AddOnce(@, ExclusionCode(item, x.reason))]
             ELSE [acc EXCEPT !.covered = Append(@, item)]

\* one pass of the loop over medicines: every branch appends to covered_items
CheckMedicine(med, acc) ==
    IF med = "" THEN acc ELSE [acc EXCEPT !.covered = Append(@, med)]

\* one pass of the loop over tests
CheckTest(test, claim_amount, pre_auth_obtained, acc) ==
    IF test = "" THEN acc
    ELSE IF check_pre_authorization_required(test, claim_amount)
    THEN IF ~pre_auth_obtained
         THEN [acc EXCEPT !.pre_auth_required = TRUE,
                          !.reasons = AddOnce(@, "PRE_AUTH_MISSING"),
                          !.excluded = Append(@, [item |-> test, reason |-> "requires pre-authorization"])]
         ELSE [acc EXCEPT !.pre_auth_required = TRUE, !.covered = Append(@, test)]
    ELSE [acc EXCEPT !.covered = Append(@, test)]

RECURSIVE ItemsLoop(_, _, _, _)
ItemsLoop(items, i, diagnosis, acc) ==
    IF i > Len(items) THEN acc
    ELSE ItemsLoop(items, i + 1, diagnosis, CheckItem(items[i], diagnosis, acc))

RECURSIVE MedicinesLoop(_, _, _)
MedicinesLoop(meds, i, acc) ==
    IF i > Len(meds) THEN acc
    ELSE MedicinesLoop(meds, i + 1, CheckMedicine(meds[i], acc))

RECURSIVE TestsLoop(_, _, _, _, _)
TestsLoop(tests, i, claim_amount, pre_auth_obtained, acc) ==
    IF i > Len(tests) THEN acc
    ELSE TestsLoop(tests, i + 1, claim_amount, pre_auth_obtained,
                   CheckTest(tests[i], claim_amount, pre_auth_obtained, acc))

\* the category picked when the caller gives none
DetectCategory(all_items, diagnosis, medicines, tests) ==
    IF \/ \E i \in 1..Len(all_items) : Contains("dental", all_items[i])
       \/ \E proc \in {"root canal", "extraction", "filling"} : ListContains(proc, all_items)
    THEN "dental"
    ELSE IF \/ \E med \in {"ayur", "homeo", "unani"} : ListContains(med, medicines)
            \/ Contains("ayur", diagnosis)
            \/ ListContains("panchakarma", all_items)
    THEN "alternative_medicine"
    ELSE IF Len(tests) > 0 THEN "diagnostic"
    ELSE IF Len(medicines) > 0 THEN "pharmacy"
    ELSE "consultation"

validate_coverage(diagnosis, treatments, procedures, medicines, tests, claim_amount, category, pre_auth_obtained) ==
    LET all_items == (treatments \o procedures)
                        \o (IF diagnosis # "" THEN <<diagnosis>> ELSE << >>)
        acc0 == [covered |-> << >>, excluded |-> << >>, reasons |-> << >>,
                 pre_auth_required |-> FALSE]
        acc1 == ItemsLoop(all_items, 1, diagnosis, acc0)
        acc2 == MedicinesLoop(medicines, 1, acc1)
        acc3 == TestsLoop(tests, 1, claim_amount, pre_auth_obtained, acc2)
        cat  == IF category # "" THEN category
                ELSE DetectCategory(all_items, diagnosis, medicines, tests)
        is_covered == Len(acc3.reasons) = 0
    IN  [is_covered |-> is_covered,
         covered_items |-> acc3.covered,
         excluded_items |-> acc3.excluded,
         pre_auth_required |-> acc3.pre_auth_required,
         pre_auth_obtained |-> pre_auth_obtained,
         applicable_sub_limit |-> get_sub_limit(cat, get_per_claim_limit),
         category |-> cat,
         rejection_reasons |-> acc3.reasons,
         confidence_score |-> IF is_covered THEN 920 ELSE 950]

\* the orders list(set(xs)) can produce: every arrangement of the distinct elements
Arrangements(S) ==
    {p \in [1..Cardinality(S) -> S] : \A i, j \in 1..Cardinality(S) : i # j => p[i] # p[j]}

\* all_medicines is one of Arrangements(set(medicines + presc_medicines))
validate_coverage_with_agent(claim_data, extracted_data, all_medicines) ==
    LET prescription == claim_data.documents.prescription
        diagnosis == IF extracted_data.diagnosis # "" THEN extracted_data.diagnosis
                     ELSE prescription.diagnosis
        treatments == prescription.procedures
                        \o (IF prescription.treatment # "" THEN <<prescription.treatment>> ELSE << >>)
        category ==
            IF claim_data.category # "" THEN claim_data.category
            ELSE IF ContainsAny({"ayurveda", "ayurvedic", "homeopathy", "unani", "panchakarma"}, diagnosis)
            THEN "alternative_medicine"
            ELSE IF \E kw \in {"ayurveda", "panchakarma", "homeopathy"} : ListContains(kw, treatments)
            THEN "alternative_medicine"
            ELSE ""
    IN  validate_coverage(diagnosis, treatments, extracted_data.procedures, all_medicines,
                          extracted_data.tests, claim_data.claim_amount, category, FALSE)

----------------------------------------------------------------------------
(* Limits: app/tools/policy_tools.py, app/agents/limit_calculator.py *)

\* the catalogue's hospital names are not substrings of one another
is_network_hospital(hospital_name) ==
    /\ hospital_name # ""
    /\ \E i \in 1..Len(get_network_hospitals) : get_network_hospitals[i] = hospital_name

\* sub_limits.get("copay_percentage", 10): only the consultation entry has the
\* key, with the same value as the default
CopayPercentage == 10
\* sub_limits.get("network_discount", 20) if is_network else 0
NetworkDiscountPercentage == 20

\* calculate_copay with the network discount charged to the member as co-pay
calculate_copay_DiscountCharged(amount, category, is_network) ==
    LET network_discount_percentage == IF is_network THEN NetworkDiscountPercentage ELSE 0
    IN  [copay_amount |-> 10 * RoundDiv(amount * (CopayPercentage + network_discount_percentage), 1000),
         copay_percentage |-> CopayPercentage,
         network_discount |-> 10 * RoundDiv(amount * network_discount_percentage, 1000)]

calculate_copay(amount, category, is_network) ==
    LET network_discount_percentage == IF is_network THEN NetworkDiscountPercentage ELSE 0
        \* amount * (pct / 100), kept exact: in units of 1/100000 rupee
        copay_x100 == amount * CopayPercentage
        discount_x100 == amount * network_discount_percentage
    IN  [copay_amount |-> 10 * RoundDiv(copay_x100, 1000),
         copay_percentage |-> CopayPercentage,
         network_discount |-> 10 * RoundDiv(discount_x100, 1000)]

\* the dict calculate_limits returns; full = FALSE is the short dict of the
\* below-minimum return, which has no per_claim_exceeded, sub_limit_exceeded,
\* is_network_hospital, copay_amount, excluded_amount or network_discount key
\* (the fields then hold the defaults make_decision reads with .get)
BelowMinResult(claim_amount) ==
    [fault |-> FALSE, full |-> FALSE, within_limits |-> FALSE,
     claim_amount |-> claim_amount, eligible_amount |-> 0,
     approved_amount |-> 0, approved_is_number |-> TRUE,
     copay_amount |-> 0, network_discount |-> 0, excluded_amount |-> 0,
     applicable_sub_limit |-> 0, remaining_annual_limit |-> 0,
     per_claim_exceeded |-> FALSE, annual_limit_exceeded |-> FALSE,
     sub_limit_exceeded |-> FALSE, is_network_hospital |-> FALSE,
     rejection_reasons |-> <<"BELOW_MIN_AMOUNT">>, confidence_score |-> 1000,
     agent_used |-> FALSE]

calculate_limits(claim_amount, category, hospital_name, excluded_amount, previous_claims_ytd, sub_limit) ==
    IF claim_amount < get_minimum_claim_amount THEN BelowMinResult(claim_amount)
    ELSE
        LET per_claim_limit == get_per_claim_limit
            annual_limit == get_annual_limit
            eligible_amount == claim_amount - excluded_amount
            per_claim_exceeded == eligible_amount > per_claim_limit
            remaining_annual == annual_limit - previous_claims_ytd
            annual_limit_exceeded == eligible_amount > remaining_annual
            sub_limit_exceeded == eligible_amount > sub_limit
            approved_amount ==
                Max2(Min2(Min2(eligible_amount, per_claim_limit),
                          Min2(remaining_annual, sub_limit)), 0)
            is_network == IF hospital_name # "" THEN is_network_hospital(hospital_name) ELSE FALSE
            copay_info == calculate_copay(approved_amount,
                                          IF category # "" THEN category ELSE "consultation",
                                          is_network)
            \* approved_amount - copay_amount, then round(., 2)
            final_approved == approved_amount - copay_info.copay_amount
            rejection_reasons ==
                (IF per_claim_exceeded THEN <<"PER_CLAIM_EXCEEDED">> ELSE << >>)
                    \o (IF annual_limit_exceeded THEN <<"ANNUAL_LIMIT_EXCEEDED">> ELSE << >>)
        IN  [fault |-> FALSE, full |-> TRUE,
             within_limits |-> Len(rejection_reasons) = 0,
             claim_amount |-> claim_amount,
             eligible_amount |-> eligible_amount,
             approved_amount |-> Round2(final_approved), approved_is_number |-> TRUE,
             copay_amount |-> Round2(copay_info.copay_amount),
             network_discount |-> Round2(copay_info.network_discount),
             excluded_amount |-> excluded_amount,
             applicable_sub_limit |-> sub_limit,
             remaining_annual_limit |-> Round2(remaining_annual),
             per_claim_exceeded |-> per_claim_exceeded,
             annual_limit_exceeded |-> annual_limit_exceeded,
             sub_limit_exceeded |-> sub_limit_exceeded,
             is_network_hospital |-> is_network,
             rejection_reasons |-> rejection_reasons,
             confidence_score |-> 980,
             agent_used |-> FALSE]

\* the amount of one excluded item f"{item} - {reason}", looked up in the bill
ExcludedItemAmount(x, bill) ==
    LET has(kw) == Contains(kw, x.item) \/ Contains(kw, x.reason)
    IN  IF has("whitening") \/ has("teeth whitening") THEN bill.teeth_whitening
        ELSE IF has("diet") THEN bill.diet_plan
        ELSE IF has("cosmetic") THEN bill.teeth_whitening + bill.cosmetic
        ELSE 0

RECURSIVE ExcludedAmount(_, _, _)
ExcludedAmount(excluded_items, i, bill) ==
    IF i > Len(excluded_items) THEN 0
    ELSE ExcludedItemAmount(excluded_items[i], bill) + ExcludedAmount(excluded_items, i + 1, bill)

\* What limit_calculator_agent.run and the parsing of its reply can give:
\*   kind "fail"    the call raises or the reply is no JSON
\*   kind "nokey"   a JSON object without "approved_amount"
\*   kind "amount"  a JSON object with a numeric "approved_amount"; confidence
\*                  is its "confidence_score" (920 when the reply gives none)
\*   kind "badtype" a JSON object whose "approved_amount" is not a number
AgentReply(kind, amount, confidence) ==
    [kind |-> kind, amount |-> amount, confidence |-> confidence]

\* whether calculate_limits_with_agent consults the agent for this rule result
ConsultsAgent(rule, excluded_amount) ==
    /\ rule.full
    /\ ~(~rule.within_limits /\ rule.per_claim_exceeded)
    /\ (excluded_amount > 0 \/ rule.sub_limit_exceeded)

LimitRule(claim_data, coverage_result) ==
    calculate_limits(claim_data.claim_amount,
                     coverage_result.category,
                     claim_data.hospital,
                     ExcludedAmount(coverage_result.excluded_items, 1, claim_data.documents.bill),
                     claim_data.previous_claims_ytd,
                     coverage_result.applicable_sub_limit)

calculate_limits_with_agent(claim_data, extracted_data, coverage_result, reply) ==
    LET excluded_amount ==
            ExcludedAmount(coverage_result.excluded_items, 1, claim_data.documents.bill)
        rule == LimitRule(claim_data, coverage_result)
    IN  IF ~rule.within_limits /\ ~rule.full
        THEN [rule EXCEPT !.fault = TRUE]       \* result["per_claim_exceeded"]: KeyError
        ELSE IF ~rule.within_limits /\ rule.per_claim_exceeded THEN rule
        ELSE IF excluded_amount > 0 \/ rule.sub_limit_exceeded
        THEN CASE reply.kind = "amount" ->
                    [rule EXCEPT !.approved_amount = reply.amount,
                                 !.confidence_score = reply.confidence,
                                 !.agent_used = TRUE]
               [] reply.kind = "badtype" ->
                    [rule EXCEPT !.approved_is_number = FALSE,
                                 !.confidence_score = reply.confidence,
                                 !.agent_used = TRUE]
               [] OTHER -> rule
        ELSE rule

----------------------------------------------------------------------------
(* Fraud scoring: app/tools/fraud_detection.py *)

state_codes ==
    {"AP", "AR", "AS", "BR", "CG", "GA", "GJ", "HR", "HP", "JH", "JK",
     "KA", "KL", "MP", "MH", "MN", "ML", "MZ", "NL", "OD", "PB", "RJ",
     "SK", "TN", "TS", "TR", "UP", "UK", "WB", "AN", "CH", "DN", "DD",
     "DL", "LD", "PY"}

\* A registration string: format is the pattern it matches ("Allopathic",
\* "Ayurvedic", "Homeopathic", "Dental"), "unrecognized" when it matches none,
\* "missing" when it is empty or None; state and year are the matched groups
DoctorReg(format, state, year) == [format |-> format, state |-> state, year |-> year]
NoDoctorReg == DoctorReg("missing", "", 0)

MinRegistrationYear == 1950

validate_doctor_registration(reg_number, clock) ==
    IF reg_number.format = "missing" THEN FALSE
    ELSE IF reg_number.format = "unrecognized" THEN FALSE
    ELSE IF reg_number.state \notin state_codes /\ reg_number.format = "Allopathic" THEN FALSE
    ELSE IF reg_number.year < MinRegistrationYear \/ reg_number.year > YearOf(clock.day) THEN FALSE
    ELSE TRUE

EmergencyKeywords == {"emergency", "accident", "acute", "severe", "critical"}

\* every line of the bill counted, not the three the check reads
RoundAmounts_AllLines(bill) ==
    Cardinality({k \in {"consultation_fee", "medicines", "diagnostic_tests",
                        "root_canal", "teeth_whitening", "diet_plan", "cosmetic"} :
                    bill[k] > 0 /\ bill[k] % Rs(500) = 0})

\* sum(1 for a in amounts if a > 0 and a % 500 == 0)
RoundAmounts(bill) ==
    Cardinality({k \in {"consultation_fee", "medicines", "diagnostic_tests"} :
                    bill[k] > 0 /\ bill[k] % Rs(500) = 0})

\* the per-claim limit and the annual limit check_fraud_indicators hard-codes
FraudPerClaimLimit == 5000
FraudAnnualLimit == 50000

\* each check of check_fraud_indicators: [fires, flag, weight in thousandths]
FraudChecks(claim_data, previous_claims_same_day, previous_claims_ytd, clock) ==
    LET claim_amount == claim_data.claim_amount
        prescription == claim_data.documents.prescription
        bill == claim_data.documents.bill
        annual_limit == Rs(FraudAnnualLimit)
    IN  << [fires |-> previous_claims_same_day >= 3,
            flag |-> "Multiple claims on same day (3+)", weight |-> 300],
           [fires |-> previous_claims_same_day < 3 /\ previous_claims_same_day >= 2,
            flag |-> "Multiple claims on same day", weight |-> 150],
           \* (previous_claims_ytd + claim_amount) / annual_limit > 0.9
           [fires |-> (previous_claims_ytd + claim_amount) * 10 > annual_limit * 9,
            flag |-> "Near annual limit exhaustion", weight |-> 100],
           \* claim_amount > per_claim_limit * 0.95
           [fires |-> claim_amount * 20 > Rs(FraudPerClaimLimit) * 19,
            flag |-> "Claim amount very close to per-claim limit", weight |-> 100],
           [fires |-> prescription.present
                        /\ ~validate_doctor_registration(prescription.doctor_reg, clock),
            flag |-> "Invalid or suspicious doctor registration", weight |-> 250],
           [fires |-> prescription.present /\ Len(prescription.medicines_prescribed) > 10,
            flag |-> "Unusually high number of medicines prescribed", weight |-> 100],
           [fires |-> bill.present /\ RoundAmounts(bill) >= 2,
            flag |-> "Multiple round number amounts in bill", weight |-> 50],
           [fires |-> /\ claim_data.treatment_date.kind = "ok"
                      /\ Weekday(claim_data.treatment_date.day) >= 5
                      /\ ~ContainsAny(EmergencyKeywords,
                                      IF prescription.present THEN prescription.diagnosis ELSE ""),
            flag |-> "Non-emergency treatment on weekend", weight |-> 50] >>

RECURSIVE FiredFlags(_, _)
FiredFlags(checks, i) ==
    IF i > Len(checks) THEN << >>
    ELSE (IF checks[i].fires THEN <<checks[i].flag>> ELSE << >>) \o FiredFlags(checks, i + 1)

RECURSIVE FiredWeight(_, _)
FiredWeight(checks, i) ==
    IF i > Len(checks) THEN 0
    ELSE (IF checks[i].fires THEN checks[i].weight ELSE 0) + FiredWeight(checks, i + 1)

ManualReviewThreshold == 350

check_fraud_indicators(claim_data, previous_claims_same_day, previous_claims_ytd, clock) ==
    LET checks == FraudChecks(claim_data, previous_claims_same_day, previous_claims_ytd, clock)
        flags == FiredFlags(checks, 1)
        risk_score == FiredWeight(checks, 1)
        capped == Min2(risk_score, 1000)
    IN  [is_suspicious |-> capped >= ManualReviewThreshold,
         fraud_flags |-> flags,
         risk_score |-> Round2(capped),
         recommend_manual_review |-> risk_score >= ManualReviewThreshold \/ Len(flags) >= 3]

----------------------------------------------------------------------------
(* Decision synthesis: app/agents/decision_maker.py, app/models/decision.py *)

hard_rejection_reasons ==
    {"POLICY_INACTIVE", "MEMBER_NOT_COVERED", "WAITING_PERIOD",
     "MISSING_DOCUMENTS", "PRE_AUTH_MISSING", "PER_CLAIM_EXCEEDED"}

\* claim_data.get("claim_id") or generate_claim_id()
generate_claim_id(clock) == [given |-> FALSE, stamp |-> clock.day, unique |-> clock.uuid]
GivenClaimId == [given |-> TRUE, stamp |-> 0, unique |-> 0]
ClaimIdOf(claim_data, clock) ==
    IF claim_data.has_claim_id THEN GivenClaimId ELSE generate_claim_id(clock)

NoDeductions == [copay |-> 0, excluded_items |-> 0, network_discount |-> 0]

\* AdjudicationResult(...); fault = TRUE stands for the exception raised
\* instead of a result (pydantic ValidationError, TypeError)
AdjudicationResult(claim_id, decision, approved_amount, deductions, rejected_items, rejection_reasons, fraud_flags, confidence_score, cashless_approved, notes) ==
    [fault |-> ~(confidence_score >= 0 /\ confidence_score <= 1000),   \* Field(ge=0, le=1)
     claim_id |-> claim_id,
     decision |-> decision,
     approved_amount |-> approved_amount,
     deductions |-> deductions,
     rejected_items |-> rejected_items,
     rejection_reasons |-> rejection_reasons,
     fraud_flags |-> fraud_flags,
     confidence_score |-> confidence_score,
     cashless_approved |-> cashless_approved,
     notes |-> notes]

NoResult ==
    [fault |-> FALSE, claim_id |-> GivenClaimId, decision |-> "NONE", approved_amount |-> 0,
     deductions |-> NoDeductions, rejected_items |-> << >>, rejection_reasons |-> << >>,
     fraud_flags |-> << >>, confidence_score |-> 0, cashless_approved |-> FALSE,
     notes |-> ""]

\* the instant cashless ceiling make_decision hard-codes
CashlessLimit == 5000

\* the tier-1 test without the fully-excluded-service clause
HardRejection_CodesOnly(all_rejection_reasons, covered_items) ==
    \E i \in 1..Len(all_rejection_reasons) : all_rejection_reasons[i] \in hard_rejection_reasons

\* has_hard_rejection or is_fully_excluded_service
HardRejection(all_rejection_reasons, covered_items) ==
    \/ \E i \in 1..Len(all_rejection_reasons) : all_rejection_reasons[i] \in hard_rejection_reasons
    \/ /\ "SERVICE_NOT_COVERED" \in SeqToSet(all_rejection_reasons)
       /\ Len(covered_items) = 0

\* the tier-2 test on the risk score alone
FraudTier_ScoreOnly(fraud_result) == fraud_result.risk_score >= ManualReviewThreshold

\* elif fraud_result.get("recommend_manual_review") or fraud_risk >= 0.35
FraudTier(fraud_result) ==
    fraud_result.recommend_manual_review \/ fraud_result.risk_score >= ManualReviewThreshold

\* elif excluded_items and len(covered_items) > 0
PartialTier(excluded_items, covered_items) ==
    Len(excluded_items) > 0 /\ Len(covered_items) > 0

\* the claim amounts c of the model for which the double c * 0.80 lies above
\* the double nearest to the decimal product (504 * 0.80 = 403.20000000000005)
RoundsUpTimes080 == {Rs(504)}

\* approved_amount >= claim_amount * 0.80, in double arithmetic
ApprovalShare(approved_amount, claim_amount) ==
    IF claim_amount \in RoundsUpTimes080
    THEN approved_amount * 5 > claim_amount * 4
    ELSE approved_amount * 5 >= claim_amount * 4

\* the note chosen on a hard rejection
HardRejectionNote(all_rejection_reasons, covered_items) ==
    LET codes == SeqToSet(all_rejection_reasons)
    IN  IF "MISSING_DOCUMENTS" \in codes THEN "Required documents missing"
        ELSE IF "WAITING_PERIOD" \in codes THEN "Treatment within waiting period"
        ELSE IF "PRE_AUTH_MISSING" \in codes THEN "Pre-authorization required but not obtained"
        ELSE IF "PER_CLAIM_EXCEEDED" \in codes THEN "Claim amount exceeds per-claim limit"
        ELSE IF "SERVICE_NOT_COVERED" \in codes /\ Len(covered_items) = 0
        THEN "Treatment/service is excluded from coverage"
        ELSE "Claim rejected"

\* the decision, the approved amount and the note of the four tiers
DecisionTiers(all_rejection_reasons, excluded_items, covered_items, fraud_result, limit_amount, claim_amount) ==
    IF HardRejection(all_rejection_reasons, covered_items)
    THEN [decision |-> "REJECTED", approved_amount |-> 0,
          notes |-> HardRejectionNote(all_rejection_reasons, covered_items)]
    ELSE IF FraudTier(fraud_result)
    THEN [decision |-> "MANUAL_REVIEW", approved_amount |-> limit_amount,
          notes |-> "Claim flagged for manual review due to unusual patterns"]
    ELSE IF PartialTier(excluded_items, covered_items)
    THEN [decision |-> "PARTIAL", approved_amount |-> limit_amount,
          notes |-> "Partial approval - excluded items"]
    ELSE IF limit_amount > 0
    THEN IF ApprovalShare(limit_amount, claim_amount)
         THEN [decision |-> "APPROVED", approved_amount |-> limit_amount,
               notes |-> "All checks passed. Claim approved."]
         ELSE [decision |-> "PARTIAL", approved_amount |-> limit_amount,
               notes |-> "Claim partially approved after applying deductions."]
    ELSE [decision |-> "REJECTED", approved_amount |-> limit_amount,
          notes |-> "Unable to approve claim - no eligible amount"]

\* the blend without the fraud penalty
BlendConfidence_NoFraudPenalty(c_extraction, c_eligibility, c_coverage, c_limit, fraud_risk) ==
    10 * RoundDiv(c_extraction + c_eligibility + c_coverage + c_limit, 40)

\* avg_confidence * (1 - fraud_risk * 0.5), rounded to two decimals
BlendConfidence(c_extraction, c_eligibility, c_coverage, c_limit, fraud_risk) ==
    10 * RoundDiv((c_extraction + c_eligibility + c_coverage + c_limit) * (2000 - fraud_risk),
                  80000)

make_decision(claim_id, claim_data, extraction_result, eligibility_result, coverage_result, limit_result, fraud_result) ==
    LET all_rejection_reasons ==
            (eligibility_result.rejection_reasons \o coverage_result.rejection_reasons)
                \o limit_result.rejection_reasons
        excluded_items == coverage_result.excluded_items
        covered_items == coverage_result.covered_items
        tier == DecisionTiers(all_rejection_reasons, excluded_items, covered_items,
                              fraud_result, limit_result.approved_amount,
                              claim_data.claim_amount)
        final_confidence ==
            BlendConfidence(extraction_result.confidence_score,
                            eligibility_result.confidence_score,
                            coverage_result.confidence_score,
                            limit_result.confidence_score,
                            fraud_result.risk_score)
        cashless_approved ==
            /\ claim_data.cashless_request
            /\ limit_result.is_network_hospital
            /\ tier.decision \in {"APPROVED", "PARTIAL"}
            /\ tier.approved_amount <= Rs(CashlessLimit)
        built ==
            AdjudicationResult(claim_id, tier.decision, Round2(tier.approved_amount),
                [copay |-> limit_result.copay_amount,
                 excluded_items |-> limit_result.excluded_amount,
                 network_discount |-> limit_result.network_discount],
                excluded_items, all_rejection_reasons, fraud_result.fraud_flags,
                final_confidence, cashless_approved, tier.notes)
    IN  IF limit_result.approved_is_number THEN built
        \* a non-numeric approved_amount: TypeError in the comparison or in
        \* round(), or the ValidationError of LimitResult.approved_amount
        ELSE [built EXCEPT !.fault = TRUE]

\* make_decision_with_agent returns the rule-based result on every path
make_decision_with_agent(claim_id, claim_data, extraction_result, eligibility_result, coverage_result, limit_result, fraud_result) ==
    make_decision(claim_id, claim_data, extraction_result, eligibility_result,
                  coverage_result, limit_result, fraud_result)

----------------------------------------------------------------------------
(* Document extraction: app/agents/document_extractor.py *)

\* the dict built in the except branch when the agent's reply is no JSON
FallbackExtraction(claim_submission) ==
    LET prescription == claim_submission.documents.prescription
        bill == claim_submission.documents.bill
    IN  [has_prescription |-> prescription.present,
         has_bill |-> bill.present,
         confidence_score |-> 850,
         diagnosis |-> prescription.diagnosis,
         medicines |-> prescription.medicines_prescribed,
         tests |-> prescription.tests_prescribed,
         procedures |-> prescription.procedures]

\* a JSON reply of the extraction agent: the flags, the confidence and the
\* procedure list are whatever the agent wrote
AgentExtraction(claim_submission, has_prescription, has_bill, confidence, lists_procedures) ==
    LET prescription == claim_submission.documents.prescription
    IN  [has_prescription |-> has_prescription,
         has_bill |-> has_bill,
         confidence_score |-> confidence,
         diagnosis |-> prescription.diagnosis,
         medicines |-> prescription.medicines_prescribed,
         tests |-> prescription.tests_prescribed,
         procedures |-> IF lists_procedures THEN prescription.procedures ELSE << >>]

\* the confidence values an extraction reply carries
ExtractionConfidences == {850, 500}

\* every value extract_document_data can return for the claim
ExtractionOutcomes(claim_submission) ==
    {FallbackExtraction(claim_submission)}
        \cup {AgentExtraction(claim_submission, TRUE, TRUE, c, lp) :
                c \in ExtractionConfidences, lp \in BOOLEAN}
        \cup {AgentExtraction(claim_submission, FALSE, TRUE, 850, TRUE),
              AgentExtraction(claim_submission, TRUE, FALSE, 850, TRUE)}

----------------------------------------------------------------------------
(* The claims submitted *)

MaxSameDay == 3        \* previous_claims_same_day ranges over 0..MaxSameDay
MaxYtdSteps == 2       \* previous_claims_ytd ranges over k * YtdStep, k in 0..MaxYtdSteps
YtdStep == Rs(24776)

Prescription(reg, diagnosis, medicines, tests, procedures, treatment) ==
    [present |-> TRUE, doctor_reg |-> reg, diagnosis |-> diagnosis,
     medicines_prescribed |-> medicines, tests_prescribed |-> tests,
     procedures |-> procedures, treatment |-> treatment]
NoPrescription ==
    [present |-> FALSE, doctor_reg |-> NoDoctorReg, diagnosis |-> "",
     medicines_prescribed |-> << >>, tests_prescribed |-> << >>,
     procedures |-> << >>, treatment |-> ""]

NoBill ==
    [present |-> FALSE, consultation_fee |-> 0, medicines |-> 0, diagnostic_tests |-> 0,
     root_canal |-> 0, teeth_whitening |-> 0, diet_plan |-> 0, cosmetic |-> 0]
Bill(consultation_fee, medicines, diagnostic_tests, root_canal, teeth_whitening, diet_plan) ==
    [NoBill EXCEPT !.present = TRUE,
                   !.consultation_fee = Rs(consultation_fee),
                   !.medicines = Rs(medicines),
                   !.diagnostic_tests = Rs(diagnostic_tests),
                   !.root_canal = Rs(root_canal),
                   !.teeth_whitening = Rs(teeth_whitening),
                   !.diet_plan = Rs(diet_plan)]

RegKA2015 == DoctorReg("Allopathic", "KA", 2015)
RegKA2025 == DoctorReg("Allopathic", "KA", 2025)
RegAyur == DoctorReg("Ayurvedic", "KL", 2019)
RegBad == DoctorReg("unrecognized", "", 0)

FeverPrescription ==
    Prescription(RegKA2015, "Viral fever", <<"Paracetamol 650mg">>, <<"CBC", "Dengue">>, << >>, "")
DentalPrescription ==
    Prescription(RegKA2015, "Tooth decay requiring root canal", << >>, << >>,
                 <<"Root Canal Treatment", "Teeth Whitening">>, "")

\* [documents, claim_amount] pairs
Scenarios ==
    { \* viral fever, consultation and tests
      [documents |-> [prescription |-> FeverPrescription, bill |-> Bill(1000, 0, 500, 0, 0, 0)],
       claim_amount |-> Rs(1500)],
      \* tests only, 504
      [documents |-> [prescription |->
                        Prescription(RegKA2015, "Viral fever", << >>, <<"CBC", "Dengue">>, << >>, ""),
                      bill |-> Bill(0, 0, 504, 0, 0, 0)],
       claim_amount |-> Rs(504)],
      \* the same documents, claim below the minimum amount
      [documents |-> [prescription |-> FeverPrescription, bill |-> Bill(300, 0, 100, 0, 0, 0)],
       claim_amount |-> Rs(400)],
      \* no prescription, no bill
      [documents |-> [prescription |-> NoPrescription, bill |-> Bill(1000, 0, 500, 0, 0, 0)],
       claim_amount |-> Rs(1500)],
      [documents |-> [prescription |-> FeverPrescription, bill |-> NoBill],
       claim_amount |-> Rs(1500)],
      \* root canal 8000 and teeth whitening 4000
      [documents |-> [prescription |-> DentalPrescription, bill |-> Bill(0, 0, 0, 8000, 4000, 0)],
       claim_amount |-> Rs(12000)],
      \* root canal 3000 and teeth whitening 1000
      [documents |-> [prescription |-> DentalPrescription, bill |-> Bill(0, 0, 0, 3000, 1000, 0)],
       claim_amount |-> Rs(4000)],
      \* consultation 2000 and medicines 5500
      [documents |-> [prescription |->
                        Prescription(RegKA2015, "Gastroenteritis", <<"Metformin 500mg">>, << >>, << >>, ""),
                      bill |-> Bill(2000, 5500, 0, 0, 0, 0)],
       claim_amount |-> Rs(7500)],
      \* MRI, no pre-authorization
      [documents |-> [prescription |->
                        Prescription(RegKA2015, "Lower back pain", << >>, <<"MRI Lumbar Spine">>, << >>, ""),
                      bill |-> Bill(0, 0, 15000, 0, 0, 0)],
       claim_amount |-> Rs(15000)],
      \* obesity with a diet plan
      [documents |-> [prescription |->
                        Prescription(RegKA2015, "Obesity - Morbid Obesity", << >>, << >>, << >>,
                                     "Diet Plan Package"),
                      bill |-> Bill(1000, 0, 0, 0, 0, 3000)],
       claim_amount |-> Rs(4000)],
      \* Ayurvedic Panchakarma
      [documents |-> [prescription |->
                        Prescription(RegAyur, "Chronic joint pain - Ayurvedic Panchakarma",
                                     << >>, << >>, << >>, "Panchakarma therapy"),
                      bill |-> Bill(4000, 0, 0, 0, 0, 0)],
       claim_amount |-> Rs(4000)],
      \* an Ayurvedic dental consultation
      [documents |-> [prescription |->
                        Prescription(RegAyur, "Toothache - Ayurvedic dental care",
                                     << >>, << >>, << >>, ""),
                      bill |-> Bill(3000, 0, 0, 0, 0, 0)],
       claim_amount |-> Rs(3000)],
      \* teeth whitening alone, 1000
      [documents |-> [prescription |->
                        Prescription(RegKA2015, "Tooth decay requiring root canal",
                                     << >>, << >>, <<"Teeth Whitening">>, ""),
                      bill |-> Bill(0, 0, 0, 0, 1000, 0)],
       claim_amount |-> Rs(1000)],
      \* a consultation above the consultation sub-limit, unrecognized registration
      [documents |-> [prescription |->
                        Prescription(RegBad, "Viral fever", << >>, << >>, << >>, ""),
                      bill |-> Bill(3000, 0, 0, 0, 0, 0)],
       claim_amount |-> Rs(3000)],
      \* diabetes, doctor registered in 2025
      [documents |-> [prescription |->
                        Prescription(RegKA2025, "Type 2 Diabetes", <<"Metformin 500mg">>, << >>, << >>, ""),
                      bill |-> Bill(1000, 500, 0, 0, 0, 0)],
       claim_amount |-> Rs(1500)] }

\* 2024-11-01 (Friday), 2024-11-02 (Saturday), an unparseable string, None
TreatmentDates == {OkDate(305), OkDate(306), BadDate, NoDate}
\* none, 10 and 60 days before 2024-11-01, 2023-06-15
JoinDates == {NoDate, OkDate(295), OkDate(245), OkDate(-200)}

ClaimOf(scenario, treatment_date, join_date, same_day, ytd, has_id) ==
    [has_claim_id |-> has_id,
     claim_amount |-> scenario.claim_amount,
     treatment_date |-> treatment_date,
     member_join_date |-> join_date,
     hospital |-> "",
     cashless_request |-> FALSE,
     category |-> "",
     documents |-> scenario.documents,
     previous_claims_same_day |-> same_day,
     previous_claims_ytd |-> ytd]

Claims ==
    {ClaimOf(sc, td, jd, sd, k * YtdStep, FALSE) :
        sc \in Scenarios, td \in TreatmentDates, jd \in JoinDates,
        sd \in 0..MaxSameDay, k \in 0..MaxYtdSteps}

\* datetime.now() of a run: 2024-11-05 or 2026-11-02; uuid4() of a run
ClockDays == {309, 1036}
Uuids == {1, 2}
Clocks == {[day |-> d, uuid |-> 1] : d \in ClockDays}

----------------------------------------------------------------------------
(* ClaimAdjudicationWorkflow.process: app/workflows/claim_adjudication.py *)

NoExtraction ==
    [has_prescription |-> FALSE, has_bill |-> FALSE, confidence_score |-> 0,
     diagnosis |-> "", medicines |-> << >>, tests |-> << >>, procedures |-> << >>]
NoEligibility ==
    [fault |-> FALSE, is_eligible |-> FALSE, rejection_reasons |-> << >>,
     waiting_period_end_date |-> NoDate, confidence_score |-> 0]
NoCoverage ==
    [is_covered |-> FALSE, covered_items |-> << >>, excluded_items |-> << >>,
     pre_auth_required |-> FALSE, pre_auth_obtained |-> FALSE, applicable_sub_limit |-> 0,
     category |-> "", rejection_reasons |-> << >>, confidence_score |-> 0]
NoLimit == [BelowMinResult(0) EXCEPT !.rejection_reasons = << >>, !.confidence_score = 0]
NoFraud ==
    [is_suspicious |-> FALSE, fraud_flags |-> << >>, risk_score |-> 0,
     recommend_manual_review |-> FALSE]

\* the replies of the limit agent
\* the "confidence_score" values a reply of the limit agent carries besides the
\* default 0.92: 0.913 and 5 (the reply is not validated)
AgentConfidences == {913, 5000}
AgentAmounts == {0, 1234567, Rs(3600), Rs(5000) + 4, Rs(20000), 0 - Rs(100)}
AgentReplies ==
    {AgentReply("fail", 0, 0), AgentReply("nokey", 0, 0), AgentReply("badtype", 0, 920)}
        \cup {AgentReply("amount", a, 920) : a \in AgentAmounts}
        \cup {AgentReply("amount", Rs(3600), c) : c \in AgentConfidences}
NoReply == AgentReply("none", 0, 0)

\* no row of table "claims" carries the claim id
NoRecord == [status |-> "", approved_amount |-> 0]

\* _policy_cache: Optional[Dict[str, Any]] = None; object 0 is None
None == 0

\* the threads that evaluate claims, and the calls of get_policy_terms each makes
MaxThreads == 3
MaxCalls == 2
Threads == 1 .. MaxThreads

\* a thread that is not inside get_policy_terms: loaded is the object its
\* load_policy_terms returned, policy the object get_policy_terms returned to it
Outside == [pc |-> "outside", loaded |-> None, policy |-> None, calls |-> 0]

\* process_claim called directly: no row, the policy not yet asked for
InitShared ==
    /\ db = NoRecord
    /\ policy_cache = [object |-> None, loads |-> 0]
    /\ threads = [t \in Threads |-> Outside]
    /\ table = EmptyBag

Init ==
    /\ pc = "extract"
    /\ claim \in Claims
    /\ now \in Clocks
    /\ extraction = NoExtraction
    /\ eligibility = NoEligibility
    /\ coverage = NoCoverage
    /\ limit = NoLimit
    /\ fraud = NoFraud
    /\ result = NoResult
    /\ ran = << >>
    /\ first = NoResult
    /\ InitShared

\* Step 1: extract_document_data returns
Extract ==
    /\ pc = "extract"
    /\ \E x \in ExtractionOutcomes(claim) : extraction' = x
    /\ ran' = Append(ran, "extraction")
    /\ pc' = "documents"
    /\ UNCHANGED <<claim, now, eligibility, coverage, limit, fraud, result, first>>
    /\ UNCHANGED shared

\* Step 1: document_extractor_agent.run raises (it is called outside the try)
ExtractRaises ==
    /\ pc = "extract"
    /\ ran' = Append(ran, "extraction")
    /\ pc' = "fault"
    /\ UNCHANGED <<claim, now, extraction, eligibility, coverage, limit, fraud, result, first>>
    /\ UNCHANGED shared

\* the document test looking at the prescription flag only
MissingDocuments_PrescriptionOnly(extraction_result) == ~extraction_result.has_prescription

MissingDocuments(extraction_result) ==
    ~extraction_result.has_prescription \/ ~extraction_result.has_bill

\* the two early returns on a missing prescription or bill
RejectMissingDocuments ==
    /\ pc = "documents"
    /\ MissingDocuments(extraction)
    /\ result' = AdjudicationResult(ClaimIdOf(claim, now), "REJECTED", 0, NoDeductions,
                    << >>, <<"MISSING_DOCUMENTS">>, << >>, 1000, FALSE,
                    IF ~extraction.has_prescription
                    THEN "Prescription from registered doctor is required"
                    ELSE "Medical bill/invoice is required")
    /\ pc' = "done"
    /\ UNCHANGED <<claim, now, extraction, eligibility, coverage, limit, fraud, ran, first>>
    /\ UNCHANGED shared

\* Step 2: check_eligibility_with_agent
CheckEligibility ==
    /\ pc = "documents"
    /\ ~MissingDocuments(extraction)
    /\ eligibility' = check_eligibility_with_agent(claim, extraction, now)
    /\ ran' = Append(ran, "eligibility")
    /\ pc' = IF eligibility'.fault THEN "fault" ELSE "eligibility"
    /\ UNCHANGED <<claim, now, extraction, coverage, limit, fraud, result, first>>
    /\ UNCHANGED shared

\* if not eligibility_result.get("is_eligible", False)
Ineligible(eligibility_result) == ~eligibility_result.is_eligible

\* the early return on is_eligible = False
RejectIneligible ==
    /\ pc = "eligibility"
    /\ Ineligible(eligibility)
    /\ result' = AdjudicationResult(ClaimIdOf(claim, now), "REJECTED", 0, NoDeductions,
                    << >>, eligibility.rejection_reasons, << >>,
                    eligibility.confidence_score, FALSE, "Eligibility check failed")
    /\ pc' = "done"
    /\ UNCHANGED <<claim, now, extraction, eligibility, coverage, limit, fraud, ran, first>>
    /\ UNCHANGED shared

\* Step 3: validate_coverage_with_agent
ValidateCoverage ==
    /\ pc = "eligibility"
    /\ ~Ineligible(eligibility)
    /\ \E meds \in Arrangements(SeqToSet(extraction.medicines)
                                 \cup SeqToSet(claim.documents.prescription.medicines_prescribed)) :
          coverage' = validate_coverage_with_agent(claim, extraction, meds)
    /\ ran' = Append(ran, "coverage")
    /\ pc' = "coverage"
    /\ UNCHANGED <<claim, now, extraction, eligibility, limit, fraud, result, first>>
    /\ UNCHANGED shared

\* Step 4: calculate_limits_with_agent
CalculateLimits ==
    /\ pc = "coverage"
    /\ \E reply \in (IF ConsultsAgent(LimitRule(claim, coverage),
                                      ExcludedAmount(coverage.excluded_items, 1, claim.documents.bill))
                     THEN AgentReplies ELSE {NoReply}) :
          limit' = calculate_limits_with_agent(claim, extraction, coverage, reply)
    /\ ran' = Append(ran, "limits")
    /\ pc' = IF limit'.fault THEN "fault" ELSE "limits"
    /\ UNCHANGED <<claim, now, extraction, eligibility, coverage, fraud, result, first>>
    /\ UNCHANGED shared

\* Step 5: make_decision_with_agent (fraud scoring, then synthesis)
MakeDecision ==
    /\ pc = "limits"
    /\ LET fraud_result == check_fraud_indicators(claim, claim.previous_claims_same_day,
                                                  claim.previous_claims_ytd, now)
           decision_result == make_decision_with_agent(ClaimIdOf(claim, now), claim, extraction,
                                                       eligibility, coverage, limit, fraud_result)
       IN  /\ fraud' = fraud_result
           /\ result' = IF decision_result.fault THEN NoResult ELSE decision_result
           /\ pc' = IF decision_result.fault THEN "fault" ELSE "done"
    /\ ran' = (ran \o <<"fraud">>) \o <<"synthesis">>
    /\ UNCHANGED <<claim, now, extraction, eligibility, coverage, limit, first>>
    /\ UNCHANGED shared

Next ==
    \/ Extract
    \/ ExtractRaises
    \/ RejectMissingDocuments
    \/ CheckEligibility
    \/ RejectIneligible
    \/ ValidateCoverage
    \/ CalculateLimits
    \/ MakeDecision

Spec == Init /\ [][Next]_vars

----------------------------------------------------------------------------
(* make_decision on arbitrary stage results *)

DecisionScenarios ==
    {sc \in Scenarios :
        /\ sc.documents.prescription.present
        /\ sc.documents.bill.present
        /\ sc.claim_amount \in {Rs(1500), Rs(3000), Rs(12000)}
        /\ sc.documents.prescription.doctor_reg \in {RegKA2015, RegBad}}

DecisionClaims ==
    {ClaimOf(sc, td, NoDate, sd, k * YtdStep, TRUE) :
        sc \in DecisionScenarios, td \in {OkDate(305), OkDate(306)},
        sd \in 0..MaxSameDay, k \in 0..MaxYtdSteps}

EligibilityResults ==
    {[NoEligibility EXCEPT !.is_eligible = (r = << >>), !.rejection_reasons = r,
                           !.confidence_score = 950] :
        r \in {<< >>, <<"WAITING_PERIOD">>, <<"POLICY_INACTIVE">>}}

WhiteningLine == [item |-> "Teeth Whitening", reason |-> "Cosmetic procedures"]
DietLine == [item |-> "Diet Plan Package", reason |-> "Weight loss treatments"]

CoverageResults ==
    {[NoCoverage EXCEPT !.is_covered = (Len(x.covered) > 0), !.covered_items = x.covered,
                        !.excluded_items = x.excluded, !.rejection_reasons = x.reasons,
                        !.confidence_score = 920] :
        x \in {[covered |-> <<"Consultation">>, excluded |-> << >>, reasons |-> << >>],
               [covered |-> <<"Root Canal Treatment">>, excluded |-> <<WhiteningLine>>,
                reasons |-> <<"COSMETIC_PROCEDURE">>],
               [covered |-> << >>, excluded |-> <<DietLine>>,
                reasons |-> <<"SERVICE_NOT_COVERED">>],
               [covered |-> <<"Consultation">>, excluded |-> <<DietLine>>,
                reasons |-> <<"SERVICE_NOT_COVERED">>],
               [covered |-> <<"MRI Lumbar Spine">>, excluded |-> << >>,
                reasons |-> <<"PRE_AUTH_MISSING">>]}}

\* the limit-stage amounts: 0, 0.004, 1234.567, 1200, 3600, -100
LimitAmounts == {0, 4, 1234567, Rs(1200), Rs(3600), 0 - Rs(100)}

LimitResults ==
    {[NoLimit EXCEPT !.full = TRUE, !.within_limits = (r = << >>), !.approved_amount = a,
                     !.rejection_reasons = r, !.confidence_score = 980] :
        a \in LimitAmounts,
        r \in {<< >>, <<"PER_CLAIM_EXCEEDED">>, <<"ANNUAL_LIMIT_EXCEEDED">>,
               <<"PRE_AUTH_MISSING">>}}

InitDecision ==
    /\ pc = "limits"
    /\ claim \in DecisionClaims
    /\ now = [day |-> 309, uuid |-> 1]
    /\ extraction = FallbackExtraction(claim)
    /\ eligibility \in EligibilityResults
    /\ coverage \in CoverageResults
    /\ limit \in LimitResults
    /\ fraud = NoFraud
    /\ result = NoResult
    /\ ran = <<"extraction", "eligibility", "coverage", "limits">>
    /\ first = NoResult
    /\ InitShared

SpecDecision == InitDecision /\ [][MakeDecision]_vars

----------------------------------------------------------------------------
(* process_claim called twice on the same submission *)

TwiceScenarios ==
    {sc \in Scenarios :
        /\ sc.documents.prescription.present
        /\ sc.documents.bill.present
        /\ sc.claim_amount \in {Rs(1500), Rs(4000)}
        /\ sc.documents.prescription.doctor_reg \in {RegKA2015, RegKA2025}}

TwiceClaims ==
    {ClaimOf(sc, OkDate(305), jd, 0, 0, id) :
        sc \in TwiceScenarios, jd \in {NoDate, OkDate(-200)}, id \in BOOLEAN}

InitTwice ==
    /\ pc = "extract"
    /\ claim \in TwiceClaims
    /\ now \in Clocks
    /\ extraction = NoExtraction
    /\ eligibility = NoEligibility
    /\ coverage = NoCoverage
    /\ limit = NoLimit
    /\ fraud = NoFraud
    /\ result = NoResult
    /\ ran = << >>
    /\ first = NoResult
    /\ InitShared

\* the same submission is processed again, at another time
Resubmit ==
    /\ pc = "done"
    /\ first = NoResult
    /\ first' = result
    /\ now' \in [day : ClockDays, uuid : Uuids]
    /\ pc' = "extract"
    /\ extraction' = NoExtraction
    /\ eligibility' = NoEligibility
    /\ coverage' = NoCoverage
    /\ limit' = NoLimit
    /\ fraud' = NoFraud
    /\ result' = NoResult
    /\ ran' = << >>
    /\ UNCHANGED claim
    /\ UNCHANGED shared

NextTwice == Next \/ Resubmit

SpecTwice == InitTwice /\ [][NextTwice]_vars

----------------------------------------------------------------------------
(* process_claim on submissions that name a hospital, ask for cashless *)
(* settlement or come with a pre-authorization *)

OptionScenarios ==
    {sc \in Scenarios :
        /\ sc.documents.prescription.present
        /\ sc.documents.bill.present
        /\ sc.claim_amount \in {Rs(1500), Rs(4000), Rs(15000)}
        /\ sc.documents.prescription.doctor_reg = RegKA2015}

\* no hospital, a hospital of the network, a hospital outside it
Hospitals == {"", "Apollo Hospitals", "City Clinic"}

OptionClaims ==
    {[ClaimOf(sc, OkDate(305), jd, sd, 0, TRUE) EXCEPT !.hospital = h, !.cashless_request = cr]
        @@ [pre_auth_obtained |-> pa] :
        sc \in OptionScenarios, jd \in {OkDate(295), OkDate(-200)}, sd \in {0, MaxSameDay},
        h \in Hospitals, cr \in BOOLEAN, pa \in BOOLEAN}

InitOptions ==
    /\ pc = "extract"
    /\ claim \in OptionClaims
    /\ now \in Clocks
    /\ extraction = NoExtraction
    /\ eligibility = NoEligibility
    /\ coverage = NoCoverage
    /\ limit = NoLimit
    /\ fraud = NoFraud
    /\ result = NoResult
    /\ ran = << >>
    /\ first = NoResult
    /\ InitShared

SpecOptions == InitOptions /\ [][Next]_vars

----------------------------------------------------------------------------
(* POST /api/claims/submit: app/main.py, app/database/db.py *)

InitSubmit ==
    /\ pc = "submit"
    /\ claim \in Claims
    /\ now \in Clocks
    /\ extraction = NoExtraction
    /\ eligibility = NoEligibility
    /\ coverage = NoCoverage
    /\ limit = NoLimit
    /\ fraud = NoFraud
    /\ result = NoResult
    /\ ran = << >>
    /\ first = NoResult
    /\ InitShared

\* create_claim(db, claim_data): the row is added with status PENDING and
\* committed, before process_claim is called
create_claim ==
    /\ pc = "submit"
    /\ db' = [status |-> "PENDING", approved_amount |-> 0]
    /\ pc' = "extract"
    /\ UNCHANGED <<claim, now, extraction, eligibility, coverage, limit, fraud, result, ran,
                   first, policy_cache, threads, table>>

\* update_claim_decision(...): the row takes the decision of the result returned
update_claim_decision ==
    /\ pc = "done"
    /\ db # NoRecord
    /\ db' = [status |-> result.decision, approved_amount |-> result.approved_amount]
    /\ pc' = "responded"
    /\ UNCHANGED <<claim, now, extraction, eligibility, coverage, limit, fraud, result, ran,
                   first, policy_cache, threads, table>>

\* except Exception as e: raise HTTPException(status_code=500, ...); the handler
\* neither deletes nor updates the row
SubmitRaises ==
    /\ pc = "fault"
    /\ pc' = "error500"
    /\ UNCHANGED <<claim, now, extraction, eligibility, coverage, limit, fraud, result, ran,
                   first, db, policy_cache, threads, table>>

NextSubmit ==
    \/ create_claim
    \/ Next
    \/ update_claim_decision
    \/ SubmitRaises

SpecSubmit == InitSubmit /\ [][NextSubmit]_vars

----------------------------------------------------------------------------
(* validate_coverage called on its own arguments *)

MaxItems == 2

\* the sequences over S of length at most n
RECURSIVE SeqsUpTo(_, _)
SeqsUpTo(S, n) ==
    IF n = 0 THEN {<< >>}
    ELSE SeqsUpTo(S, n - 1) \cup {Append(q, x) : q \in SeqsUpTo(S, n - 1), x \in S}

CoverageDiagnoses ==
    {"", "Viral fever", "Obesity - Morbid Obesity", "Chronic joint pain - Ayurvedic Panchakarma",
     "Ayurveda weight loss therapy", "Homeopathy for infertility", "Unani beauty treatment",
     "Yoga therapy for obesity"}

CoverageItems ==
    {"", "Teeth Whitening", "Diet Plan Package", "Cosmetic Surgery", "Root Canal Treatment",
     "Ayurveda weight loss therapy"}

\* the keyword arguments of one call; claim holds them in this specification
CoverageArguments ==
    [diagnosis : CoverageDiagnoses,
     treatments : SeqsUpTo(CoverageItems, MaxItems),
     procedures : SeqsUpTo({"Teeth Whitening", "Panchakarma therapy", "Consultation"}, 1),
     medicines : {<< >>, <<"Vitamin D3">>},
     tests : {<< >>, <<"MRI Lumbar Spine">>},
     claim_amount : {Rs(15000)},
     category : {""},
     pre_auth_obtained : BOOLEAN]

InitCoverage ==
    /\ pc = "validate_coverage"
    /\ claim \in CoverageArguments
    /\ now = [day |-> 309, uuid |-> 1]
    /\ extraction = NoExtraction
    /\ eligibility = NoEligibility
    /\ coverage = NoCoverage
    /\ limit = NoLimit
    /\ fraud = NoFraud
    /\ result = NoResult
    /\ ran = << >>
    /\ first = NoResult
    /\ InitShared

CallValidateCoverage ==
    /\ pc = "validate_coverage"
    /\ coverage' = validate_coverage(claim.diagnosis, claim.treatments, claim.procedures,
                                     claim.medicines, claim.tests, claim.claim_amount,
                                     claim.category, claim.pre_auth_obtained)
    /\ ran' = Append(ran, "coverage")
    /\ pc' = "validated"
    /\ UNCHANGED <<claim, now, extraction, eligibility, limit, fraud, result, first>>
    /\ UNCHANGED shared

SpecCoverage == InitCoverage /\ [][CallValidateCoverage]_vars

----------------------------------------------------------------------------
(* get_policy_terms called from several threads: app/tools/policy_tools.py *)

\* the pipeline variables play no part here
InitThreads ==
    /\ pc = "extract"
    /\ claim = CHOOSE c \in Claims : TRUE
    /\ now = [day |-> 309, uuid |-> 1]
    /\ extraction = NoExtraction
    /\ eligibility = NoEligibility
    /\ coverage = NoCoverage
    /\ limit = NoLimit
    /\ fraud = NoFraud
    /\ result = NoResult
    /\ ran = << >>
    /\ first = NoResult
    /\ InitShared

pipeline == <<pc, claim, now, extraction, eligibility, coverage, limit, fraud, result, ran, first, db, table>>

\* a stage of thread t calls get_policy_terms()
CallGetPolicyTerms(t) ==
    /\ threads[t].pc = "outside"
    /\ threads[t].calls < MaxCalls
    /\ threads' = [threads EXCEPT ![t].pc = "test", ![t].calls = @ + 1]
    /\ UNCHANGED <<pipeline, policy_cache>>

\* if _policy_cache is None
TestCache(t) ==
    /\ threads[t].pc = "test"
    /\ threads' = [threads EXCEPT ![t].pc = IF policy_cache.object = None THEN "load" ELSE "return"]
    /\ UNCHANGED <<pipeline, policy_cache>>

\* load_policy_terms(): json.load builds a new dict, object number loads + 1
load_policy_terms(t) ==
    /\ threads[t].pc = "load"
    /\ policy_cache' = [policy_cache EXCEPT !.loads = @ + 1]
    /\ threads' = [threads EXCEPT ![t].pc = "store", ![t].loaded = policy_cache.loads + 1]
    /\ UNCHANGED pipeline

\* _policy_cache = <the dict loaded>
StoreCache(t) ==
    /\ threads[t].pc = "store"
    /\ policy_cache' = [policy_cache EXCEPT !.object = threads[t].loaded]
    /\ threads' = [threads EXCEPT ![t].pc = "return"]
    /\ UNCHANGED pipeline

\* return _policy_cache
ReturnCache(t) ==
    /\ threads[t].pc = "return"
    /\ threads' = [threads EXCEPT ![t].pc = "outside", ![t].policy = policy_cache.object]
    /\ UNCHANGED <<pipeline, policy_cache>>

NextThreads ==
    \E t \in Threads :
        \/ CallGetPolicyTerms(t)
        \/ TestCache(t)
        \/ load_policy_terms(t)
        \/ StoreCache(t)
        \/ ReturnCache(t)

SpecThreads == InitThreads /\ [][NextThreads]_vars

----------------------------------------------------------------------------
(* check_eligibility called on its own arguments *)

\* the days from the join date to the treatment date that are tried: around
\* each waiting period
DaysSinceJoin == {0 - 1, 0, 29, 30, 31, 89, 90, 91, 729, 730, 731}

EligibilityDiagnoses ==
    {"", "Viral fever", "Type 2 Diabetes", "Hypertension", "Knee replacement surgery",
     "Diabetes and knee replacement", "Chronic joint pain",
     "Chronic joint pain - Ayurvedic Panchakarma"}

\* the keyword arguments of one call; claim holds them in this specification
EligibilityArguments ==
    {[treatment_date |-> OkDate(td), diagnosis |-> dg, member_join_date |-> OkDate(td - d)] :
        td \in {305, 1036}, dg \in EligibilityDiagnoses, d \in DaysSinceJoin}
    \cup {[treatment_date |-> td, diagnosis |-> dg, member_join_date |-> jd] :
            td \in {OkDate(20), OkDate(305), BadDate, NoDate}, dg \in EligibilityDiagnoses,
            jd \in {BadDate, NoDate}}

InitEligibility ==
    /\ pc = "check_eligibility"
    /\ claim \in EligibilityArguments
    /\ now = [day |-> 309, uuid |-> 1]
    /\ extraction = NoExtraction
    /\ eligibility = NoEligibility
    /\ coverage = NoCoverage
    /\ limit = NoLimit
    /\ fraud = NoFraud
    /\ result = NoResult
    /\ ran = << >>
    /\ first = NoResult
    /\ InitShared

CallCheckEligibility ==
    /\ pc = "check_eligibility"
    /\ eligibility' = check_eligibility(claim.treatment_date, claim.diagnosis,
                                        claim.member_join_date)
    /\ ran' = Append(ran, "eligibility")
    /\ pc' = IF eligibility'.fault THEN "raised" ELSE "checked"
    /\ UNCHANGED <<claim, now, extraction, coverage, limit, fraud, result, first>>
    /\ UNCHANGED shared

SpecEligibility == InitEligibility /\ [][CallCheckEligibility]_vars

----------------------------------------------------------------------------
(* calculate_limits called on its own arguments *)

\* the keyword arguments of one call; claim holds them in this specification.
\* 1234.56 and 4321.09 are amounts whose tenth is no two-decimal number.
LimitArguments ==
    [claim_amount : {Rs(400), Rs(500), Rs(1500), 1234560, 4321090, Rs(6000), Rs(12000)},
     category : {"", "consultation", "dental", "pharmacy"},
     hospital : {"", "Apollo Hospitals", "City Clinic"},
     excluded_amount : {0, Rs(1000), Rs(2000)},
     previous_claims_ytd : {0, Rs(48600), Rs(49000), Rs(50000)},
     sub_limit : {Rs(1000), Rs(2000), Rs(5000), Rs(10000)}]

InitLimits ==
    /\ pc = "calculate_limits"
    /\ claim \in LimitArguments
    /\ now = [day |-> 309, uuid |-> 1]
    /\ extraction = NoExtraction
    /\ eligibility = NoEligibility
    /\ coverage = NoCoverage
    /\ limit = NoLimit
    /\ fraud = NoFraud
    /\ result = NoResult
    /\ ran = << >>
    /\ first = NoResult
    /\ InitShared

CallCalculateLimits ==
    /\ pc = "calculate_limits"
    /\ limit' = calculate_limits(claim.claim_amount, claim.category, claim.hospital,
                                 claim.excluded_amount, claim.previous_claims_ytd,
                                 claim.sub_limit)
    /\ ran' = Append(ran, "limits")
    /\ pc' = "calculated"
    /\ UNCHANGED <<claim, now, extraction, eligibility, coverage, fraud, result, first>>
    /\ UNCHANGED shared

SpecLimits == InitLimits /\ [][CallCalculateLimits]_vars

----------------------------------------------------------------------------
(* check_fraud_indicators called on its own arguments *)

\* len(medicines_prescribed): none, ten, eleven
MedicineCounts == {0, 10, 11}
Medicines(n) == [i \in 1..n |-> "Paracetamol 650mg"]

FraudPrescriptions ==
    {NoPrescription}
        \cup {Prescription(reg, diagnosis, Medicines(n), << >>, << >>, "") :
                reg \in {RegKA2015, RegKA2025, RegBad, NoDoctorReg},
                diagnosis \in {"Viral fever", "Acute appendicitis"},
                n \in MedicineCounts}

\* consultation fee, medicines, diagnostic tests
FraudBills ==
    {NoBill}
        \cup {Bill(c, m, d, 0, 0, 0) : c \in {1000, 700}, m \in {0, 500}, d \in {0, 500}}
        \cup {Bill(0, 0, 0, 8000, 4000, 0)}

\* around 90% of the annual limit with the amounts below: 45000 is not over it
FraudYtd == {0, Rs(40250), Rs(43500), Rs(49000)}
\* around 95% of the per-claim limit: 4750 is not over it
FraudAmounts == {Rs(1500), Rs(4750), 4750010, Rs(12000)}

FraudArguments ==
    {ClaimOf([documents |-> [prescription |-> p, bill |-> b], claim_amount |-> a],
             td, NoDate, sd, ytd, FALSE) :
        p \in FraudPrescriptions, b \in FraudBills, a \in FraudAmounts,
        td \in TreatmentDates \cup {OkDate(307)}, sd \in 0..MaxSameDay, ytd \in FraudYtd}

InitFraud ==
    /\ pc = "check_fraud_indicators"
    /\ claim \in FraudArguments
    /\ now \in Clocks
    /\ extraction = NoExtraction
    /\ eligibility = NoEligibility
    /\ coverage = NoCoverage
    /\ limit = NoLimit
    /\ fraud = NoFraud
    /\ result = NoResult
    /\ ran = << >>
    /\ first = NoResult
    /\ InitShared

CallCheckFraudIndicators ==
    /\ pc = "check_fraud_indicators"
    /\ fraud' = check_fraud_indicators(claim, claim.previous_claims_same_day,
                                       claim.previous_claims_ytd, now)
    /\ ran' = Append(ran, "fraud")
    /\ pc' = "scored"
    /\ UNCHANGED <<claim, now, extraction, eligibility, coverage, limit, result, first>>
    /\ UNCHANGED shared

SpecFraud == InitFraud /\ [][CallCheckFraudIndicators]_vars

----------------------------------------------------------------------------
(* A member's claims of one year, submitted one after another: app/main.py, *)
(* app/database/db.py                                                       *)

MaxSubmissions == 12   \* the claims the member submits within the year

Row(status, approved_amount) == [status |-> status, approved_amount |-> approved_amount]
PendingRow == Row("PENDING", 0)

\* the sum of approved_amount over the rows of the bag whose status is in statuses
RECURSIVE SumApproved(_, _)
SumApproved(rows, statuses) ==
    IF BagToSet(rows) = {} THEN 0
    ELSE LET r == CHOOSE x \in BagToSet(rows) : TRUE
             rest == [x \in BagToSet(rows) \ {r} |-> rows[x]]
         IN  (IF r.status \in statuses THEN rows[r] * r.approved_amount ELSE 0)
                + SumApproved(rest, statuses)

\* func.sum(approved_amount) of the member's rows of the year with status "APPROVED"
get_claims_ytd(rows) == SumApproved(rows, {"APPROVED"})

\* every row with an approved amount counted
get_claims_ytd_AllPaid(rows) == SumApproved(rows, {"APPROVED", "PARTIAL"})

\* tests billed 4000 with a consultation of 1000; the prescription also names
\* a cosmetic procedure that is not billed
CosmeticScenario ==
    [documents |-> [prescription |->
                      Prescription(RegKA2015, "Viral fever", << >>, <<"CBC", "Dengue">>,
                                   <<"Cosmetic Surgery">>, ""),
                    bill |-> Bill(1000, 0, 4000, 0, 0, 0)],
     claim_amount |-> Rs(5000)]
FeverScenario ==
    [documents |-> [prescription |-> FeverPrescription, bill |-> Bill(1000, 0, 500, 0, 0, 0)],
     claim_amount |-> Rs(1500)]

\* the requests of the member: [scenario, member_join_date]
YearRequests ==
    {[scenario |-> CosmeticScenario, member_join_date |-> OkDate(-200)],
     [scenario |-> FeverScenario, member_join_date |-> OkDate(-200)],
     [scenario |-> FeverScenario, member_join_date |-> OkDate(295)]}

\* claim_data of submit_claim: the claim id is generated, previous_claims_ytd
\* is read from the table, previous_claims_same_day is the request's (0)
ClaimData(request, rows) ==
    ClaimOf(request.scenario, OkDate(305), request.member_join_date, 0,
            get_claims_ytd(rows), TRUE)

InitYear ==
    /\ pc = "idle"
    /\ claim = ClaimData(CHOOSE r \in YearRequests : TRUE, EmptyBag)
    /\ now = [day |-> 309, uuid |-> 1]
    /\ extraction = NoExtraction
    /\ eligibility = NoEligibility
    /\ coverage = NoCoverage
    /\ limit = NoLimit
    /\ fraud = NoFraud
    /\ result = NoResult
    /\ ran = << >>
    /\ first = NoResult
    /\ InitShared

\* submit_claim up to the call of process_claim: get_claims_ytd, claim_data,
\* create_claim (a row with status PENDING, committed)
submit_claim ==
    /\ pc = "idle"
    /\ BagCardinality(table) < MaxSubmissions
    /\ \E request \in YearRequests : claim' = ClaimData(request, table)
    /\ table' = table (+) SetToBag({PendingRow})
    /\ extraction' = NoExtraction
    /\ eligibility' = NoEligibility
    /\ coverage' = NoCoverage
    /\ limit' = NoLimit
    /\ fraud' = NoFraud
    /\ result' = NoResult
    /\ ran' = << >>
    /\ pc' = "extract"
    /\ UNCHANGED <<now, first, db, policy_cache, threads>>

\* update_claim_decision and the response: the row of the claim takes the
\* decision and the approved amount of the result
RecordDecision ==
    /\ pc = "done"
    /\ table' = (table (-) SetToBag({PendingRow}))
                    (+) SetToBag({Row(result.decision, result.approved_amount)})
    /\ pc' = "idle"
    /\ UNCHANGED <<claim, now, extraction, eligibility, coverage, limit, fraud, result, ran,
                   first, db, policy_cache, threads>>

\* except Exception: HTTPException(500); the row stays PENDING
SubmitFails ==
    /\ pc = "fault"
    /\ pc' = "idle"
    /\ UNCHANGED <<claim, now, extraction, eligibility, coverage, limit, fraud, result, ran,
                   first, db, policy_cache, threads, table>>

NextYear ==
    \/ submit_claim
    \/ Next
    \/ RecordDecision
    \/ SubmitFails

SpecYear == InitYear /\ [][NextYear]_vars

----------------------------------------------------------------------------
(* Properties *)

Decisions == {"APPROVED", "PARTIAL", "REJECTED", "MANUAL_REVIEW"}

\* process_claim has returned an AdjudicationResult
Returned == pc = "done"

\* the rejection codes of eligibility, coverage and limits, merged
MergedCodes ==
    (SeqToSet(eligibility.rejection_reasons) \cup SeqToSet(coverage.rejection_reasons))
        \cup SeqToSet(limit.rejection_reasons)

\* a tier-1 trigger holds on the stage results
HardTrigger ==
    \/ MergedCodes \cap {"POLICY_INACTIVE", "MEMBER_NOT_COVERED", "WAITING_PERIOD",
                         "MISSING_DOCUMENTS", "PRE_AUTH_MISSING", "PER_CLAIM_EXCEEDED"} # {}
    \/ /\ "SERVICE_NOT_COVERED" \in SeqToSet(coverage.rejection_reasons)
       /\ Len(coverage.covered_items) = 0

\* the fraud check recommends manual review or reports a risk score >= 0.35
FraudTrigger == fraud.recommend_manual_review \/ fraud.risk_score >= 350

\* coverage reports an excluded item and a covered item
PartialTrigger == Len(coverage.excluded_items) > 0 /\ Len(coverage.covered_items) > 0

\* the synthesis stage produced the returned result
Synthesized == Returned /\ "synthesis" \in SeqToSet(ran)

\* C1: every returned result has 0 <= approved_amount <= claim_amount and
\* approved_amount <= the per-claim limit, whatever the agents returned.
C1_ApprovedAmountBounds ==
    Returned =>
        /\ 0 <= result.approved_amount
        /\ result.approved_amount <= claim.claim_amount
        /\ result.approved_amount <= get_per_claim_limit

\* C2: no stage aborts the pipeline with an unhandled fault, and a returned
\* result carries one of the four decisions.
C2_NoUnhandledFault ==
    /\ pc # "fault"
    /\ Returned => (~result.fault /\ result.decision \in Decisions)

\* C3: when the merged rejection codes hold a hard-rejection code, or coverage
\* produced SERVICE_NOT_COVERED with no covered item, make_decision returns
\* REJECTED with approved amount 0, whatever the fraud result, the excluded
\* items and the limit-stage amount are.
C3_HardRejectionWins ==
    (Synthesized /\ HardTrigger) =>
        (result.decision = "REJECTED" /\ result.approved_amount = 0)

C3_Witness ==
    /\ Synthesized
    /\ HardTrigger
    /\ FraudTrigger
    /\ PartialTrigger
    /\ limit.approved_amount > 0
    /\ result.decision = "REJECTED"

\* C4: make_decision returns MANUAL_REVIEW exactly when no tier-1 trigger holds
\* and the fraud check recommends manual review or reports risk >= 0.35, the
\* recommendation being risk >= 0.35 or at least three flags; excluded items
\* and a zero limit-stage amount do not change that decision.
C4_ManualReviewExactly ==
    Synthesized =>
        /\ (result.decision = "MANUAL_REVIEW") <=> (~HardTrigger /\ FraudTrigger)
        /\ fraud.recommend_manual_review <=>
              (fraud.risk_score >= 350 \/ Len(fraud.fraud_flags) >= 3)

C4_Witness ==
    /\ Synthesized
    /\ result.decision = "MANUAL_REVIEW"
    /\ fraud.risk_score < 350
    /\ Len(fraud.fraud_flags) >= 3
    /\ PartialTrigger
    /\ limit.approved_amount = 0

\* C5: when neither the hard-rejection tier nor the fraud tier triggers and
\* coverage reports an excluded item and a covered item, the decision is
\* PARTIAL and the approved amount equals the limit-stage approved amount.
C5_PartialTier ==
    (Synthesized /\ ~HardTrigger /\ ~FraudTrigger /\ PartialTrigger) =>
        (result.decision = "PARTIAL" /\ result.approved_amount = limit.approved_amount)

\* C6: when none of the first three tiers triggers, a positive limit-stage
\* amount gives APPROVED iff it is at least 80% of the claim amount and
\* PARTIAL otherwise, the amount unchanged; an amount of 0 gives REJECTED.
C6_LastTier ==
    (Synthesized /\ ~HardTrigger /\ ~FraudTrigger /\ ~PartialTrigger) =>
        /\ limit.approved_amount > 0 =>
              /\ result.decision =
                    (IF limit.approved_amount * 5 >= claim.claim_amount * 4
                     THEN "APPROVED" ELSE "PARTIAL")
              /\ result.approved_amount = limit.approved_amount
        /\ limit.approved_amount = 0 => result.decision = "REJECTED"

\* extract_document_data returned a result
Extracted == pc # "extract" /\ ~(pc = "fault" /\ ran = <<"extraction">>)

\* C7: when the extraction result lacks the prescription or the bill, only the
\* extraction stage runs and the result returned is REJECTED with the reasons
\* [MISSING_DOCUMENTS], approved amount 0 and confidence 1.0.
C7_MissingDocuments ==
    (Extracted /\ (~extraction.has_prescription \/ ~extraction.has_bill)) =>
        /\ ran = <<"extraction">>
        /\ pc \in {"documents", "done"}
        /\ Returned =>
              /\ result.decision = "REJECTED"
              /\ result.rejection_reasons = <<"MISSING_DOCUMENTS">>
              /\ result.approved_amount = 0
              /\ result.confidence_score = 1000

C7_Witness ==
    /\ Returned
    /\ extraction.has_prescription
    /\ ~extraction.has_bill
    /\ claim.documents.bill.present
    /\ result.rejection_reasons = <<"MISSING_DOCUMENTS">>

StageOrder == <<"extraction", "eligibility", "coverage", "limits", "fraud", "synthesis">>

IsPrefix(s, t) == Len(s) <= Len(t) /\ \A i \in 1..Len(s) : s[i] = t[i]

\* the eligibility stage returned a result
EligibilityReturned == Len(ran) >= 2 /\ ~eligibility.fault

\* the run of process_claim is over: it returned or it raised
Ended == pc \in {"done", "fault"}

\* C8: the stages run in the order extraction, eligibility, coverage, limits,
\* fraud, synthesis; an ineligible result ends the run with REJECTED, approved
\* amount 0 and the eligibility codes, no later stage having run; after an
\* eligible one coverage, limits, fraud scoring and synthesis each run exactly
\* once, in that order.
C8_StageOrdering ==
    /\ IsPrefix(ran, StageOrder)
    /\ (EligibilityReturned /\ ~eligibility.is_eligible) =>
          /\ ran = <<"extraction", "eligibility">>
          /\ pc \in {"eligibility", "done"}
          /\ Returned =>
                /\ result.decision = "REJECTED"
                /\ result.approved_amount = 0
                /\ result.rejection_reasons = eligibility.rejection_reasons
    /\ (Ended /\ EligibilityReturned /\ eligibility.is_eligible) => ran = StageOrder

\* C9: a second run of process_claim on the same submission returns the
\* result of the first run (claim id, decision, approved amount, rejection
\* codes, rejected items, fraud flags, confidence), whatever the time of each
\* run and whether or not the claim carries a claim id or a join date.
C9_Deterministic ==
    (Returned /\ first # NoResult) => result = first

DentalDocuments == [prescription |-> DentalPrescription, bill |-> Bill(0, 0, 0, 8000, 4000, 0)]

\* C10: for the claim with Root Canal Treatment 8000 and Teeth Whitening 4000
\* (claim amount 12000, member eligible, no fraud trigger) the rejected items
\* hold the whitening line, COSMETIC_PROCEDURE is among the rejection codes and
\* the decision is PARTIAL.
C10_DentalPartial ==
    (/\ Synthesized
     /\ claim.documents = DentalDocuments
     /\ claim.claim_amount = Rs(12000)
     /\ eligibility.is_eligible
     /\ ~FraudTrigger) =>
        /\ \E i \in 1..Len(result.rejected_items) :
              result.rejected_items[i].item = "Teeth Whitening"
        /\ "COSMETIC_PROCEDURE" \in SeqToSet(result.rejection_reasons)
        /\ result.decision = "PARTIAL"

\* the limits stage was entered
LimitsRan == "limits" \in SeqToSet(ran)

\* C11: for a claim with both documents and a passed eligibility check whose
\* amount is below the minimum, the limits stage returns within_limits = false
\* with BELOW_MIN_AMOUNT and approved amount 0, and process_claim returns a
\* result carrying BELOW_MIN_AMOUNT with approved amount 0.
C11_BelowMinimum ==
    (LimitsRan /\ claim.claim_amount < get_minimum_claim_amount) =>
        /\ ~limit.fault
        /\ ~limit.within_limits
        /\ "BELOW_MIN_AMOUNT" \in SeqToSet(limit.rejection_reasons)
        /\ limit.approved_amount = 0
        /\ Ended =>
              /\ Returned
              /\ "BELOW_MIN_AMOUNT" \in SeqToSet(result.rejection_reasons)
              /\ result.approved_amount = 0

\* the reply of an agent call that failed: an exception or no JSON
FailedReply == AgentReply("fail", 0, 0)

\* process() when every agent call fails softly: the extraction reply is no
\* JSON (except branch) and the limit agent's answer is discarded; fault = TRUE
\* when a stage raises
RuleBased(claim_data, clock) ==
    LET claim_id == ClaimIdOf(claim_data, clock)
        extraction_result == FallbackExtraction(claim_data)
        eligibility_result == check_eligibility_with_agent(claim_data, extraction_result, clock)
        all_medicines ==
            CHOOSE meds \in Arrangements(SeqToSet(extraction_result.medicines)
                        \cup SeqToSet(claim_data.documents.prescription.medicines_prescribed)) : TRUE
        coverage_result == validate_coverage_with_agent(claim_data, extraction_result, all_medicines)
        limit_result == calculate_limits_with_agent(claim_data, extraction_result,
                                                    coverage_result, FailedReply)
        fraud_result == check_fraud_indicators(claim_data, claim_data.previous_claims_same_day,
                                               claim_data.previous_claims_ytd, clock)
    IN  IF MissingDocuments(extraction_result)
        THEN AdjudicationResult(claim_id, "REJECTED", 0, NoDeductions, << >>,
                                <<"MISSING_DOCUMENTS">>, << >>, 1000, FALSE,
                                IF ~extraction_result.has_prescription
                                THEN "Prescription from registered doctor is required"
                                ELSE "Medical bill/invoice is required")
        ELSE IF eligibility_result.fault THEN [NoResult EXCEPT !.fault = TRUE]
        ELSE IF Ineligible(eligibility_result)
        THEN AdjudicationResult(claim_id, "REJECTED", 0, NoDeductions, << >>,
                                eligibility_result.rejection_reasons, << >>,
                                eligibility_result.confidence_score, FALSE,
                                "Eligibility check failed")
        ELSE IF limit_result.fault THEN [NoResult EXCEPT !.fault = TRUE]
        ELSE make_decision_with_agent(claim_id, claim_data, extraction_result,
                                      eligibility_result, coverage_result, limit_result,
                                      fraud_result)

\* C12: a claim whose rule-based ruling is REJECTED or MANUAL_REVIEW gets that
\* decision and that approved amount in every run, whatever the agent calls
\* return (so any two runs that differ only in the agents' replies agree).
C12_AgentsNotAuthoritative ==
    (/\ Returned
     /\ ~RuleBased(claim, now).fault
     /\ RuleBased(claim, now).decision \in {"REJECTED", "MANUAL_REVIEW"}) =>
        /\ result.decision = RuleBased(claim, now).decision
        /\ result.approved_amount = RuleBased(claim, now).approved_amount

\* the extraction agent's reply was not usable and no answer of the limit
\* agent was taken
AgentsFailed == extraction = FallbackExtraction(claim) /\ ~limit.agent_used

\* C13: a failing agent call never aborts process_claim, and the result of a
\* run whose agent calls failed is the one the deterministic rules produce
\* (decision, approved amount, rejection codes, confidence).
C13_AgentFailureRecovered ==
    /\ ~(pc = "fault" /\ ran = <<"extraction">>)
    /\ (Returned /\ AgentsFailed) =>
          /\ result.decision = RuleBased(claim, now).decision
          /\ result.approved_amount = RuleBased(claim, now).approved_amount
          /\ result.rejection_reasons = RuleBased(claim, now).rejection_reasons
          /\ result.confidence_score = RuleBased(claim, now).confidence_score

\* the coverage stage ran
CoverageRan == "coverage" \in SeqToSet(ran)

\* some test of the claim is one of the tests that need a pre-authorization
PreAuthTests(tests) ==
    {i \in 1..Len(tests) : ContainsAny({"mri", "ct scan", "pet scan"}, tests[i])}

\* C14: PRE_AUTH_MISSING is raised, the test listed as excluded and the final
\* decision REJECTED exactly when a test name contains mri, ct scan or pet
\* scan, the claim amount exceeds 10000 and no pre-authorization was obtained;
\* with a pre-authorization the test is covered and the code is not raised.
C14_PreAuthorization ==
    CoverageRan =>
        LET needed == PreAuthTests(extraction.tests) # {} /\ claim.claim_amount > Rs(PreAuthThreshold)
            missing == needed /\ ~claim.pre_auth_obtained
        IN  /\ ("PRE_AUTH_MISSING" \in SeqToSet(coverage.rejection_reasons)) <=> missing
            /\ missing =>
                  /\ \A i \in PreAuthTests(extraction.tests) :
                        \E j \in 1..Len(coverage.excluded_items) :
                            coverage.excluded_items[j].item = extraction.tests[i]
                  /\ Returned => result.decision = "REJECTED"
            /\ (needed /\ claim.pre_auth_obtained) =>
                  \A i \in PreAuthTests(extraction.tests) :
                      extraction.tests[i] \in SeqToSet(coverage.covered_items)

\* the eligibility result is the rejection for the initial waiting period
InitialWaitingRejection ==
    /\ eligibility.rejection_reasons = <<"WAITING_PERIOD">>
    /\ eligibility.confidence_score = 980

\* C15: a claim without member join date is checked with join date =
\* treatment date minus one year, and so never fails the initial 30-day
\* waiting period, whatever the treatment date and the time of the run.
C15_DefaultJoinDate ==
    (/\ EligibilityReturned
     /\ claim.member_join_date = NoDate
     /\ claim.treatment_date.kind = "ok") =>
        /\ eligibility = check_eligibility(claim.treatment_date, extraction.diagnosis,
                                           OkDate(claim.treatment_date.day - 365))
        /\ ~InitialWaitingRejection

\* the hospital of the claim is one of the policy's network hospitals
InNetwork == claim.hospital \in SeqToSet(get_network_hospitals)

\* C16: cashless_approved is true in a result iff cashless was requested, the
\* hospital is in the network, the decision is APPROVED or PARTIAL and the
\* approved amount is at most 5000; it is false in every REJECTED and every
\* MANUAL_REVIEW result, the early rejections included.
C16_Cashless ==
    Returned =>
        /\ result.cashless_approved <=>
              /\ claim.cashless_request
              /\ InNetwork
              /\ result.decision \in {"APPROVED", "PARTIAL"}
              /\ result.approved_amount <= Rs(CashlessLimit)
        /\ result.decision \in {"REJECTED", "MANUAL_REVIEW"} => ~result.cashless_approved

\* C17: a claim submitted through the API has no row in table "claims" before
\* its AdjudicationResult exists, and a submission that ended in an error has
\* left no row (in particular no PENDING row) behind
C17_NothingPersistedBeforeResult ==
    /\ db # NoRecord => result # NoResult
    /\ pc = "error500" => db = NoRecord

\* validate_coverage has returned
CoverageValidated == pc = "validated"

\* the diagnosis names an alternative medicine
AltMedicineDiagnosis == ContainsAny(AltMedicineKeywords, claim.diagnosis)

\* the keywords of the exclusion groups
ExclusionKeywords == {exclusion_keywords[k].keyword : k \in 1..Len(exclusion_keywords)}

\* C18: when the diagnosis mentions Panchakarma, Ayurveda or another
\* alternative-medicine keyword, validate_coverage excludes no diagnosis,
\* treatment or procedure (only a test can be in excluded_items) and raises
\* none of COSMETIC_PROCEDURE, SERVICE_NOT_COVERED, EXCLUDED_CONDITION,
\* whatever exclusion keywords the items contain
C18_AltMedicineNeverExcluded ==
    (CoverageValidated /\ AltMedicineDiagnosis) =>
        /\ \A i \in 1..Len(coverage.excluded_items) :
              /\ coverage.excluded_items[i].item \in SeqToSet(claim.tests)
              /\ coverage.excluded_items[i].reason = "requires pre-authorization"
        /\ SeqToSet(coverage.rejection_reasons)
              \cap {"COSMETIC_PROCEDURE", "SERVICE_NOT_COVERED", "EXCLUDED_CONDITION"} = {}
        /\ \A item \in (SeqToSet(claim.treatments) \cup SeqToSet(claim.procedures)
                           \cup {claim.diagnosis}) \ {""} :
              item \in SeqToSet(coverage.covered_items)

\* an alternative-medicine diagnosis that carries an exclusion keyword itself,
\* with a treatment that carries one and no alternative-medicine keyword
C18_Witness ==
    /\ CoverageValidated
    /\ AltMedicineDiagnosis
    /\ ContainsAny(ExclusionKeywords, claim.diagnosis)
    /\ \E i \in 1..Len(claim.treatments) :
          /\ ContainsAny(ExclusionKeywords, claim.treatments[i])
          /\ ~ContainsAny(AltMedicineKeywords, claim.treatments[i])
    /\ coverage.is_covered

\* process ran all the stages and returned the result of make_decision
FullPipeline == Returned /\ ran = StageOrder

\* sum(confidence_scores), in thousandths
ConfidenceSum ==
    ((extraction.confidence_score + eligibility.confidence_score)
        + coverage.confidence_score) + limit.confidence_score

\* 8000 times avg_confidence * (1 - fraud_risk * 0.5), in thousandths
ExactBlend8000 == ConfidenceSum * (2000 - fraud.risk_score)

\* C19 as the code has it: every returned result has a confidence in [0,1];
\* on the full-pipeline path it is a two-decimal value nearest to the average
\* of the four stage confidences times (1 - risk_score * 0.5), that is, the
\* blend rounded to two decimals
C19_ConfidenceBlendRounded ==
    Returned =>
        /\ result.confidence_score >= 0
        /\ result.confidence_score <= 1000
        /\ FullPipeline =>
              /\ result.confidence_score % 10 = 0
              /\ 8000 * result.confidence_score - ExactBlend8000 <= 40000
              /\ ExactBlend8000 - 8000 * result.confidence_score <= 40000

\* C19 as stated: every returned result has a confidence in [0,1]; on the
\* full-pipeline path it equals the average of the four stage confidences
\* times (1 - risk_score * 0.5)
C19_ConfidenceBlend ==
    Returned =>
        /\ result.confidence_score >= 0
        /\ result.confidence_score <= 1000
        /\ FullPipeline => 8000 * result.confidence_score = ExactBlend8000

\* a full-pipeline result with a fraud penalty whose blend has more than two decimals
C19_Witness ==
    /\ FullPipeline
    /\ fraud.risk_score > 0
    /\ limit.agent_used
    /\ ExactBlend8000 % 80000 # 0

\* C20: claims evaluated on concurrent threads share no mutable state: the
\* policy configuration of get_policy_terms, once populated, is never
\* modified or replaced, so that every thread works on the one object and
\* the interleaving cannot show in any claim's result
C20_PolicyNeverReplaced ==
    [][policy_cache.object # None => policy_cache'.object = policy_cache.object]_vars

\* codes without the later occurrences of a code
RECURSIVE Deduplicated(_)
Deduplicated(codes) ==
    IF codes = << >> THEN << >>
    ELSE LET front == Deduplicated(SubSeq(codes, 1, Len(codes) - 1))
         IN  AddOnce(front, codes[Len(codes)])

\* C21: the rejection_reasons of a result of make_decision are the codes of
\* eligibility, coverage and limits in that order with duplicates removed: no
\* code occurs twice and the order of first occurrence is kept
C21_MergedCodesDeduplicated ==
    Synthesized =>
        result.rejection_reasons =
            Deduplicated((eligibility.rejection_reasons \o coverage.rejection_reasons)
                            \o limit.rejection_reasons)

\* C22: a claim is APPROVED only when every eligibility, coverage and limit
\* check passed and there is no fraud indicator: every APPROVED result has no
\* rejection code, no excluded item and no fraud flag
C22_ApprovedIsClean ==
    (Returned /\ result.decision = "APPROVED") =>
        /\ result.rejection_reasons = << >>
        /\ result.rejected_items = << >>
        /\ result.fraud_flags = << >>

\* check_eligibility has returned on two well-formed dates
EligibilityChecked ==
    /\ pc = "checked"
    /\ claim.treatment_date.kind = "ok"
    /\ claim.member_join_date.kind = "ok"

\* the days from the join date to the treatment date
DaysCovered == claim.treatment_date.day - claim.member_join_date.day

\* the rows of the waiting table whose keyword the diagnosis contains and whose
\* period has not elapsed
UnmetRows ==
    {i \in 1..Len(condition_waiting_map) :
        /\ Contains(condition_waiting_map[i].keyword, claim.diagnosis)
        /\ DaysCovered < condition_waiting_map[i].days}

\* C23: check_eligibility returns eligible with confidence 0.95 exactly when
\* the days from join to treatment reach the initial waiting period and the
\* period of every condition keyword found in the diagnosis; otherwise it
\* returns WAITING_PERIOD with the end date join + the unmet period (the
\* initial one first, else that of the first unmet keyword in table order).
\* Generic joint pain triggers no condition period.
C23_WaitingPeriods ==
    EligibilityChecked =>
        /\ eligibility.is_eligible <=> (DaysCovered >= WaitingInitial /\ UnmetRows = {})
        /\ eligibility.is_eligible =>
              /\ eligibility.confidence_score = 950
              /\ eligibility.rejection_reasons = << >>
        /\ ~eligibility.is_eligible =>
              /\ eligibility.rejection_reasons = <<"WAITING_PERIOD">>
              /\ eligibility.waiting_period_end_date =
                    OkDate(claim.member_join_date.day +
                           (IF DaysCovered < WaitingInitial THEN WaitingInitial
                            ELSE condition_waiting_map[
                                    CHOOSE i \in UnmetRows : \A j \in UnmetRows : i <= j].days))
        /\ (claim.diagnosis = "Chronic joint pain" /\ DaysCovered >= WaitingInitial)
              => eligibility.is_eligible
        /\ (WaitingInitial = 30 /\ WaitingDiabetes = 90 /\ WaitingHypertension = 90)
              /\ WaitingJointReplacement = 730

\* a diagnosis naming two conditions, past the 90 days of the first and short
\* of the 730 days of the second: rejected until join + 730
C23_Witness ==
    /\ EligibilityChecked
    /\ claim.diagnosis = "Diabetes and knee replacement"
    /\ DaysCovered = 90
    /\ ~eligibility.is_eligible
    /\ eligibility.waiting_period_end_date = OkDate(claim.member_join_date.day + 730)

\* the eligibility stage was entered
EligibilityEntered == "eligibility" \in SeqToSet(ran)

\* the treatment date or the join date is invalid, unparseable or missing
InvalidDates == claim.treatment_date.kind # "ok" \/ claim.member_join_date.kind # "ok"

\* C24: on an invalid, unparseable or missing treatment or join date the
\* eligibility stage does not raise and returns is_eligible = false with
\* INVALID_DATE and confidence 1.0, and process_claim returns REJECTED with
\* INVALID_DATE and approved amount 0
C24_InvalidDate ==
    (EligibilityEntered /\ InvalidDates) =>
        /\ pc # "fault"
        /\ ~eligibility.is_eligible
        /\ eligibility.rejection_reasons = <<"INVALID_DATE">>
        /\ eligibility.confidence_score = 1000
        /\ Returned =>
              /\ result.decision = "REJECTED"
              /\ result.rejection_reasons = <<"INVALID_DATE">>
              /\ result.approved_amount = 0

\* calculate_limits has returned for an amount at or above the minimum
LimitsCalculated == pc = "calculated" /\ claim.claim_amount >= get_minimum_claim_amount

\* claim amount less excluded amount
EligibleAmount == claim.claim_amount - claim.excluded_amount

\* annual limit less the amount approved so far this year
RemainingAnnual == get_annual_limit - claim.previous_claims_ytd

\* max(0, min(eligible amount, per-claim limit, remaining annual limit, sub-limit))
CappedAmount ==
    Max2(0, Min2(Min2(EligibleAmount, get_per_claim_limit),
                 Min2(RemainingAnnual, claim.sub_limit)))

\* what C25 says besides the two amounts: the codes, the flags and the
\* network discount, which is reported and not subtracted
LimitFlags ==
    /\ limit.eligible_amount = EligibleAmount
    /\ limit.rejection_reasons =
          (IF EligibleAmount > get_per_claim_limit THEN <<"PER_CLAIM_EXCEEDED">> ELSE << >>)
              \o (IF EligibleAmount > RemainingAnnual THEN <<"ANNUAL_LIMIT_EXCEEDED">> ELSE << >>)
    /\ limit.within_limits <=> limit.rejection_reasons = << >>
    /\ limit.sub_limit_exceeded <=> EligibleAmount > claim.sub_limit
    /\ limit.network_discount % 10 = 0
    /\ IF claim.hospital = "Apollo Hospitals"
       THEN /\ 100 * limit.network_discount - CappedAmount * NetworkDiscountPercentage <= 500
            /\ CappedAmount * NetworkDiscountPercentage - 100 * limit.network_discount <= 500
       ELSE limit.network_discount = 0

FraudScored == pc = "scored"

\* the weight a rule adds when its condition holds, in thousandths
Weight(fires, w) == IF fires THEN w ELSE 0
Count(fires) == IF fires THEN 1 ELSE 0

SameDayThree == claim.previous_claims_same_day >= 3
SameDayTwo == claim.previous_claims_same_day = 2
\* (previous_claims_ytd + claim_amount) / 50000 > 0.9
NearAnnualLimit == claim.previous_claims_ytd + claim.claim_amount > Rs(45000)
\* claim_amount > 5000 * 0.95
NearPerClaimLimit == claim.claim_amount > Rs(4750)
\* a prescription whose registration is missing, of no known format, of an
\* unknown state, or of a year outside 1950..this year
BadRegistration ==
    LET reg == claim.documents.prescription.doctor_reg
    IN  /\ claim.documents.prescription.present
        /\ \/ reg.format \in {"missing", "unrecognized"}
           \/ reg.format = "Allopathic" /\ reg.state \notin state_codes
           \/ reg.year < 1950
           \/ reg.year > YearOf(now.day)
ManyMedicines ==
    /\ claim.documents.prescription.present
    /\ Len(claim.documents.prescription.medicines_prescribed) >= 11
IsRound(a) == a > 0 /\ a % Rs(500) = 0
RoundBill ==
    LET bill == claim.documents.bill
    IN  /\ bill.present
        /\ \/ IsRound(bill.consultation_fee) /\ IsRound(bill.medicines)
           \/ IsRound(bill.consultation_fee) /\ IsRound(bill.diagnostic_tests)
           \/ IsRound(bill.medicines) /\ IsRound(bill.diagnostic_tests)
WeekendNonEmergency ==
    /\ claim.treatment_date.kind = "ok"
    /\ claim.treatment_date.day % 7 \in {5, 6}
    /\ \/ ~claim.documents.prescription.present
       \/ \A kw \in {"emergency", "accident", "acute", "severe", "critical"} :
             ~Contains(kw, claim.documents.prescription.diagnosis)

RuleWeights ==
    Weight(SameDayThree, 300) + Weight(SameDayTwo, 150) + Weight(NearAnnualLimit, 100)
        + Weight(NearPerClaimLimit, 100) + Weight(BadRegistration, 250)
        + Weight(ManyMedicines, 100) + Weight(RoundBill, 50) + Weight(WeekendNonEmergency, 50)
RulesFired ==
    Count(SameDayThree) + Count(SameDayTwo) + Count(NearAnnualLimit)
        + Count(NearPerClaimLimit) + Count(BadRegistration)
        + Count(ManyMedicines) + Count(RoundBill) + Count(WeekendNonEmergency)

\* C26: the risk score check_fraud_indicators returns is the sum of the weights
\* of the rules that fired (same-day count >= 3: 0.30, otherwise >= 2: 0.15,
\* never both; utilization over 90% of the annual limit: 0.10; claim amount
\* over 95% of the per-claim limit: 0.10; invalid doctor registration: 0.25;
\* more than 10 medicines: 0.10; two or more of consultation fee, medicines and
\* diagnostic tests multiples of 500: 0.05; non-emergency weekend treatment:
\* 0.05), there is one flag per fired rule, and the score lies in [0,1]
C26_RiskScoreIsSumOfWeights ==
    FraudScored =>
        /\ fraud.risk_score = RuleWeights
        /\ Len(fraud.fraud_flags) = RulesFired
        /\ Cardinality(SeqToSet(fraud.fraud_flags)) = RulesFired
        /\ ~(SameDayThree /\ SameDayTwo)
        /\ fraud.risk_score >= 0
        /\ fraud.risk_score <= 1000

\* every rule but the lower same-day one fired: 0.95, seven flags
C26_Witness ==
    /\ FraudScored
    /\ SameDayThree /\ NearAnnualLimit /\ NearPerClaimLimit /\ BadRegistration
    /\ ManyMedicines /\ RoundBill /\ WeekendNonEmergency
    /\ fraud.risk_score = 950
    /\ Len(fraud.fraud_flags) = 7

\* the texts the category is inferred from
CategoryItems ==
    LET prescription == claim.documents.prescription
        diagnosis == IF extraction.diagnosis # "" THEN extraction.diagnosis
                     ELSE prescription.diagnosis
    IN  (SeqToSet(prescription.procedures) \cup SeqToSet(extraction.procedures))
            \cup {prescription.treatment, diagnosis}
CategoryMedicines ==
    SeqToSet(extraction.medicines) \cup SeqToSet(claim.documents.prescription.medicines_prescribed)

HasDentalKeyword ==
    \E item \in CategoryItems : ContainsAny({"dental", "root canal", "extraction", "filling"}, item)
HasAltMedicineKeyword ==
    \E item \in CategoryItems \cup CategoryMedicines :
        ContainsAny({"ayur", "ayurveda", "ayurvedic", "homeo", "homeopathy", "unani", "panchakarma"}, item)

PriorityCategory ==
    IF claim.category # "" THEN claim.category
    ELSE IF HasDentalKeyword THEN "dental"
    ELSE IF HasAltMedicineKeyword THEN "alternative_medicine"
    ELSE IF Len(extraction.tests) > 0 THEN "diagnostic"
    ELSE IF CategoryMedicines # {} THEN "pharmacy"
    ELSE "consultation"

\* C27: for every claim processed by the pipeline the coverage category is the
\* caller's when one is given, otherwise dental on a dental keyword, else
\* alternative_medicine on an alternative-medicine keyword, else diagnostic on
\* any test, else pharmacy on any medicine, else consultation; and the
\* applicable sub-limit is that category's limit
C27_CategoryByPriority ==
    CoverageRan =>
        /\ coverage.category = PriorityCategory
        /\ coverage.applicable_sub_limit = get_sub_limit(PriorityCategory, get_per_claim_limit)

\* C28: every AdjudicationResult with decision APPROVED or PARTIAL has
\* approved_amount > 0
C28_ApprovedAmountPositive ==
    (Returned /\ result.decision \in {"APPROVED", "PARTIAL"}) => result.approved_amount > 0

\* C29: across the claims one member submits through the API within one
\* calendar year, the approved amounts of the claims decided APPROVED or
\* PARTIAL sum to at most the annual limit
C29_AnnualLimitNeverExceeded ==
    SumApproved(table, {"APPROVED", "PARTIAL"}) <= get_annual_limit

\* the bill lines an excluded item can stand for, each once
ExcludableLines ==
    claim.documents.bill.teeth_whitening + claim.documents.bill.diet_plan
        + claim.documents.bill.cosmetic

\* C30: the excluded amount calculate_limits_with_agent derives counts each
\* billed line at most once and never exceeds the claim amount, and in every
\* result approved_amount + deductions.copay + deductions.excluded_items is at
\* most claim_amount
C30_DeductionsWithinClaim ==
    Returned =>
        /\ result.deductions.excluded_items <= ExcludableLines
        /\ result.deductions.excluded_items <= claim.claim_amount
        /\ result.approved_amount + result.deductions.copay + result.deductions.excluded_items
              <= claim.claim_amount

====
